---- MODULE Spec2Model ----
(***************************************************************************)
(* A model of jx, an interactive terminal viewer for JSON documents:       *)
(* the pointer (cursor with remembered path), the document navigation and  *)
(* fold operations of Json, the formatter that flattens the document into  *)
(* lines and builds the pointer map, and the search jump of the event      *)
(* loop.                                                                   *)
(***************************************************************************)
EXTENDS Integers, Sequences, FiniteSets, TLC

\* ------------------------------------------------------------------------
\* Bounds of the model
\* ------------------------------------------------------------------------

\* Number of documents of the catalogue that Init may load.
MaxDoc == 11

\* ------------------------------------------------------------------------
\* Strings are sequences of one-character strings, so that escaping and
\* JSON-Pointer resolution are computed, not assumed.
\* ------------------------------------------------------------------------

Min(a, b) == IF a < b THEN a ELSE b

\* Body(x) with x bound to the value of e (a let-binding computed once)
Let(e, Body(_)) == Body(e)

Digits == <<"0", "1", "2", "3", "4", "5", "6", "7", "8", "9">>

IsDigit(c) == \E d \in 1..10 : Digits[d] = c

DigitValue(c) == (CHOOSE d \in 1..10 : Digits[d] = c) - 1

\* format!("{}", i) for a usize
RECURSIVE Decimal(_)
Decimal(n) ==
    IF n < 10 THEN <<Digits[n + 1]>>
    ELSE Decimal(n \div 10) \o <<Digits[(n % 10) + 1]>>

\* str::replace for a one-character pattern
RECURSIVE ReplaceChar(_, _, _)
ReplaceChar(s, c, r) ==
    IF s = <<>> THEN <<>>
    ELSE (IF Head(s) = c THEN r ELSE <<Head(s)>>) \o ReplaceChar(Tail(s), c, r)

\* str::replace for a two-character pattern (leftmost, non-overlapping)
RECURSIVE ReplacePair(_, _, _)
ReplacePair(s, p, r) ==
    IF Len(s) < 2 THEN s
    ELSE IF s[1] = p[1] /\ s[2] = p[2]
         THEN r \o ReplacePair(Tail(Tail(s)), p, r)
         ELSE <<Head(s)>> \o ReplacePair(Tail(s), p, r)

\* str::split(c): the pieces between the occurrences of c
RECURSIVE SplitAcc(_, _, _)
SplitAcc(s, c, cur) ==
    IF s = <<>> THEN <<cur>>
    ELSE IF Head(s) = c THEN <<cur>> \o SplitAcc(Tail(s), c, <<>>)
         ELSE SplitAcc(Tail(s), c, Append(cur, Head(s)))

Split(s, c) == SplitAcc(s, c, <<>>)

\* ------------------------------------------------------------------------
\* Token
\* ------------------------------------------------------------------------

Key(k) == [tag |-> "Key", key |-> k, idx |-> 0]

Index(i) == [tag |-> "Index", key |-> <<>>, idx |-> i]

\* Option<T>: <<>> is None, <<x>> is Some(x)
None == <<>>

Some(x) == <<x>>

as_key(t) == IF t.tag = "Key" THEN Some(t.key) ELSE None

as_index(t) == IF t.tag = "Index" THEN Some(t.idx) ELSE None

\* ------------------------------------------------------------------------
\* serde_json::Value
\* ------------------------------------------------------------------------

Obj(keys, kids) == [kind |-> "Object", keys |-> keys, kids |-> kids, text |-> <<>>]

Arr(kids) == [kind |-> "Array", keys |-> <<>>, kids |-> kids, text |-> <<>>]

Prim(kind, text) == [kind |-> kind, keys |-> <<>>, kids |-> <<>>, text |-> text]

Num(c) == Prim("Number", <<c>>)

Str(text) == Prim("String", text)

True == Prim("Bool", <<"t", "r", "u", "e">>)

Null == Prim("Null", <<"n", "u", "l", "l">>)

is_object(v) == v.kind = "Object"

is_array(v) == v.kind = "Array"

\* usize::from_str as used by serde_json's parse_index
RECURSIVE ParseDigits(_, _)
ParseDigits(s, acc) ==
    IF s = <<>> THEN Some(acc)
    ELSE IF IsDigit(Head(s)) THEN ParseDigits(Tail(s), acc * 10 + DigitValue(Head(s)))
         ELSE None

parse_index(s) ==
    IF s = <<>> THEN None
    ELSE IF s[1] = "+" \/ (s[1] = "0" /\ Len(s) # 1) THEN None
         ELSE ParseDigits(s, 0)

\* Map::get: the value stored under key k
map_get(v, k) ==
    IF \E i \in 1..Len(v.keys) : v.keys[i] = k
    THEN Some(v.kids[CHOOSE i \in 1..Len(v.keys) : v.keys[i] = k])
    ELSE None

\* One step of Value::pointer's try_fold
pointer_step(target, token) ==
    IF target = None THEN None
    ELSE IF is_object(target[1]) THEN map_get(target[1], token)
    ELSE IF is_array(target[1])
         THEN Let(parse_index(token), LAMBDA x :
                  IF x # None /\ x[1] < Len(target[1].kids)
                  THEN Some(target[1].kids[x[1] + 1])
                  ELSE None)
         ELSE None

RECURSIVE pointer_fold(_, _)
pointer_fold(target, parts) ==
    IF parts = <<>> THEN target
    ELSE pointer_fold(pointer_step(target, Head(parts)), Tail(parts))

unescape(x) == ReplacePair(ReplacePair(x, <<"~", "1">>, <<"/">>), <<"~", "0">>, <<"~">>)

\* Value::pointer(&str) -> Option<&Value>
value_pointer(v, str) ==
    IF str = <<>> THEN Some(v)
    ELSE IF str[1] # "/" THEN None
    ELSE Let(Tail(Split(str, "/")), LAMBDA parts :
             pointer_fold(Some(v), [i \in 1..Len(parts) |-> unescape(parts[i])]))

\* ------------------------------------------------------------------------
\* Pointer: the remembered tokens and the cursor
\* ------------------------------------------------------------------------

Pointer_new == [tokens |-> <<>>, cursor |-> None]

is_at_start(p) == p.cursor = None

is_at_end(p) ==
    IF p.cursor = None THEN p.tokens = <<>>
    ELSE p.cursor[1] + 1 >= Len(p.tokens)

forward(p) ==
    IF p.cursor = None /\ p.tokens # <<>> THEN [p EXCEPT !.cursor = Some(0)]
    ELSE IF p.cursor # None /\ p.cursor[1] + 1 < Len(p.tokens)
         THEN [p EXCEPT !.cursor = Some(p.cursor[1] + 1)]
         ELSE p

rewind(p) ==
    IF p.cursor = None THEN p
    ELSE IF p.cursor[1] = 0 THEN [p EXCEPT !.cursor = None]
         ELSE [p EXCEPT !.cursor = Some(p.cursor[1] - 1)]

\* Pointer::back, called by Json::go_out: one level toward the root, the
\* remembered tokens are kept.
back(p) ==
    IF p.cursor = None THEN p
    ELSE IF p.cursor[1] = 0 THEN [p EXCEPT !.cursor = None]
         ELSE [p EXCEPT !.cursor = Some(p.cursor[1] - 1)]

\* Pointer::set_path, called by Json::set_selection: the given path becomes
\* the remembered tokens and the cursor selects its last token.
set_path(p, path) ==
    [tokens |-> path,
     cursor |-> IF path = <<>> THEN None ELSE Some(Len(path) - 1)]

current_token(p) ==
    IF p.cursor = None THEN None
    ELSE IF p.cursor[1] < Len(p.tokens) THEN Some(p.tokens[p.cursor[1] + 1])
         ELSE None

\* self.tokens[..=c]; slicing past the end panics in Rust, the model clips
\* and CursorValid states the bound separately.
Pointer_tokens(p) ==
    IF p.cursor = None THEN <<>>
    ELSE SubSeq(p.tokens, 1, Min(p.cursor[1] + 1, Len(p.tokens)))

\* Mutant of parent_tokens: the slice includes the cursor's own token.
parent_tokens_with_cursor(p) ==
    IF p.cursor = None THEN <<>>
    ELSE SubSeq(p.tokens, 1, Min(p.cursor[1] + 1, Len(p.tokens)))

parent_tokens(p) ==
    IF p.cursor = None THEN <<>>
    ELSE SubSeq(p.tokens, 1, Min(p.cursor[1], Len(p.tokens)))

\* Mutant of reset_cursor: truncates at the cursor, dropping the cursor's own
\* token instead of replacing it.
reset_cursor_drop_token(p, token) ==
    [p EXCEPT !.tokens = SubSeq(p.tokens, 1, p.cursor[1])]

\* Mutant of reset_cursor: replaces the token but keeps the remembered tail.
reset_cursor_keep_tail(p, token) ==
    [p EXCEPT !.tokens = [p.tokens EXCEPT ![p.cursor[1] + 1] = token]]

\* Precondition (else a panic): the cursor is set.
reset_cursor(p, token) ==
    [p EXCEPT !.tokens =
        [SubSeq(p.tokens, 1, p.cursor[1] + 1) EXCEPT ![p.cursor[1] + 1] = token]]

push(p, s) == [p EXCEPT !.tokens = Append(p.tokens, s)]

\* Mutant of escape_token: '/' is escaped before '~'.
escape_token_slash_first(s) ==
    IF s.tag = "Key"
    THEN ReplaceChar(ReplaceChar(s.key, "/", <<"~", "1">>), "~", <<"~", "0">>)
    ELSE Decimal(s.idx)

escape_token(s) ==
    IF s.tag = "Key"
    THEN ReplaceChar(ReplaceChar(s.key, "~", <<"~", "0">>), "/", <<"~", "1">>)
    ELSE Decimal(s.idx)

RECURSIVE json_pointer(_)
json_pointer(tokens) ==
    IF tokens = <<>> THEN <<>>
    ELSE json_pointer(SubSeq(tokens, 1, Len(tokens) - 1))
         \o <<"/">> \o escape_token(tokens[Len(tokens)])

to_json_pointer(p) == json_pointer(Pointer_tokens(p))

\* ------------------------------------------------------------------------
\* Formatter: flattens the document into styled lines and builds the
\* pointer map (path -> kind, child count, first and last line)
\* ------------------------------------------------------------------------

INDENT == 4

StyledString(text, class) == [text |-> text, class |-> class]

format_string(string) == StyledString(string, "String")

format_punct(punct) == StyledString(punct, "Punct")

surround_punct(styled_string, before, after) ==
    <<format_punct(before), styled_string, format_punct(after)>>

double_quote(styled_string) == surround_punct(styled_string, <<"\"">>, <<"\"">>)

format_key(key) == double_quote(format_string(key)) \o <<format_punct(<<":", " ">>)>>

\* Mutant of PointerValue_from: an array is recorded as an object.
PointerValue_from_array_as_object(v) ==
    IF is_object(v) \/ is_array(v) THEN "Object" ELSE "Primitive"

PointerValue_from(v) ==
    IF is_object(v) THEN "Object" ELSE IF is_array(v) THEN "Array" ELSE "Primitive"

Formatter_new(v) ==
    [depth |-> 0, value |-> v, tokens |-> <<>>, lines |-> <<>>,
     pointer_map |-> [t \in {} |-> 0]]

\* Mutant of update_map: an entry is inserted and never modified.
update_map_insert_only(f) ==
    IF f.tokens \in DOMAIN f.pointer_map THEN f
    ELSE Let(value_pointer(f.value, json_pointer(f.tokens))[1], LAMBDA v :
            [f EXCEPT !.pointer_map = @ @@
                (f.tokens :> [value |-> PointerValue_from(v),
                              children |-> Len(v.kids),
                              bounds |-> <<Len(f.lines) - 1, Len(f.lines) - 1>>])])

\* Mutant of update_map: the last line is set one past the line just added.
update_map_last_past_end(f) ==
    IF f.tokens \in DOMAIN f.pointer_map
    THEN [f EXCEPT !.pointer_map[f.tokens].bounds[2] = Len(f.lines)]
    ELSE Let(value_pointer(f.value, json_pointer(f.tokens))[1], LAMBDA v :
            [f EXCEPT !.pointer_map = @ @@
                (f.tokens :> [value |-> PointerValue_from(v),
                              children |-> Len(v.kids),
                              bounds |-> <<Len(f.lines) - 1, Len(f.lines) - 1>>])])

\* entry(tokens).and_modify(last = lines.len() - 1).or_insert_with(...)
update_map(f) ==
    IF f.tokens \in DOMAIN f.pointer_map
    THEN [f EXCEPT !.pointer_map[f.tokens].bounds[2] = Len(f.lines) - 1]
    ELSE Let(value_pointer(f.value, json_pointer(f.tokens))[1], LAMBDA v :
            [f EXCEPT !.pointer_map = @ @@
                (f.tokens :> [value |-> PointerValue_from(v),
                              children |-> Len(v.kids),
                              bounds |-> <<Len(f.lines) - 1, Len(f.lines) - 1>>])])

push_token(f, token) == [f EXCEPT !.tokens = Append(f.tokens, token)]

set_token(f, token) ==
    IF f.tokens = <<>> THEN push_token(f, token)
    ELSE [f EXCEPT !.tokens[Len(f.tokens)] = token]

pop_token(f) == [f EXCEPT !.tokens = SubSeq(f.tokens, 1, Len(f.tokens) - 1)]

new_line(f) ==
    update_map([f EXCEPT !.lines = Append(@,
        [line_number |-> Len(f.lines), indent |-> f.depth * INDENT,
         pointer |-> f.tokens, elements |-> <<>>])])

extend_line(f, elements) ==
    Let(IF f.lines = <<>> THEN new_line(f) ELSE f, LAMBDA g :
        [g EXCEPT !.lines[Len(g.lines)].elements = @ \o elements])

append_line(f, element) == extend_line(f, <<element>>)

open_bracket(f, symbol) ==
    [append_line(f, format_punct(symbol)) EXCEPT !.depth = f.depth + 1]

\* Mutant of close_bracket: the bracket goes on the current line.
close_bracket_same_line(f, symbol) ==
    append_line([f EXCEPT !.depth = f.depth - 1], format_punct(symbol))

close_bracket(f, symbol) ==
    append_line(new_line([f EXCEPT !.depth = f.depth - 1]), format_punct(symbol))

format_primitive(f, v) ==
    IF v.kind = "String" THEN extend_line(f, double_quote(format_string(v.text)))
    ELSE append_line(f, StyledString(v.text, v.kind))

RECURSIVE format_value(_, _)
RECURSIVE format_object_from(_, _, _)
RECURSIVE format_array_from(_, _, _)

\* The body of format_object's loop for the entries idx.. (0-based).  The
\* test on f.depth only makes TLC compute f before the next entry.
format_object_from(f, object, idx) ==
    IF f.depth < 0 \/ idx >= Len(object.keys) THEN f
    ELSE Let(Key(object.keys[idx + 1]), LAMBDA token :
         Let(IF idx = 0 THEN push_token(f, token) ELSE set_token(f, token), LAMBDA f1 :
         Let(extend_line(new_line(f1), format_key(as_key(token)[1])), LAMBDA f2 :
         Let(format_value(f2, object.kids[idx + 1]), LAMBDA f3 :
         Let(IF idx < Len(object.keys) - 1
             THEN append_line(f3, format_punct(<<",">>)) ELSE f3, LAMBDA f4 :
         format_object_from(f4, object, idx + 1))))))

format_object(f, object) ==
    Let(format_object_from(open_bracket(f, <<"{">>), object, 0), LAMBDA f1 :
        close_bracket(IF object.keys # <<>> THEN pop_token(f1) ELSE f1, <<"}">>))

\* The body of format_array's loop for the elements idx.. (0-based)
format_array_from(f, array, idx) ==
    IF f.depth < 0 \/ idx >= Len(array.kids) THEN f
    ELSE Let(Index(idx), LAMBDA token :
         Let(IF idx = 0 THEN push_token(f, token) ELSE set_token(f, token), LAMBDA f1 :
         Let(format_value(new_line(f1), array.kids[idx + 1]), LAMBDA f3 :
         Let(IF idx < Len(array.kids) - 1
             THEN append_line(f3, format_punct(<<",">>)) ELSE f3, LAMBDA f4 :
         format_array_from(f4, array, idx + 1)))))

\* Mutant of format_array: a comma follows the last element too.
format_array_trailing_comma(f, array) ==
    Let(format_array_from(open_bracket(f, <<"[">>), array, 0), LAMBDA f1 :
        close_bracket(IF array.kids # <<>>
                      THEN pop_token(append_line(f1, format_punct(<<",">>)))
                      ELSE f1, <<"]">>))

format_array(f, array) ==
    Let(format_array_from(open_bracket(f, <<"[">>), array, 0), LAMBDA f1 :
        close_bracket(IF array.kids # <<>> THEN pop_token(f1) ELSE f1, <<"]">>))

format_value(f, v) ==
    IF is_object(v) THEN format_object(f, v)
    ELSE IF is_array(v) THEN format_array(f, v)
    ELSE format_primitive(f, v)

\* Formatter::format
Formatter_format(v) == format_value(Formatter_new(v), v)

\* ------------------------------------------------------------------------
\* Json: the document, the pointer, the folds
\* ------------------------------------------------------------------------

\* impl From<Rc<Value>> for Json
Json_from(v) ==
    Let(Formatter_format(v), LAMBDA f :
        [pointer |-> Pointer_new, value |-> v, folds |-> {}, all_folded |-> FALSE,
         formatted |-> f.lines, pointer_map |-> f.pointer_map, panicked |-> FALSE])

Json_tokens(j) == Pointer_tokens(j.pointer)

Json_token(j) == current_token(j.pointer)

Json_value(j) == value_pointer(j.value, to_json_pointer(j.pointer))

bounds(j) ==
    IF Json_tokens(j) \in DOMAIN j.pointer_map
    THEN j.pointer_map[Json_tokens(j)].bounds
    ELSE <<0, Len(j.formatted)>>

\* Mutant of line_to_visible_from: a folded node skips to its last line
\* instead of past it.
line_to_visible_to_last(j, target_line, visible, line_idx) ==
    LET RECURSIVE walk(_, _)
        walk(vis, idx) ==
            IF idx >= target_line THEN Some(vis)
            ELSE IF idx >= Len(j.formatted) THEN None
            ELSE Let(j.formatted[idx + 1].pointer, LAMBDA path :
                     IF path \in j.folds /\ path \in DOMAIN j.pointer_map
                        /\ j.pointer_map[path].bounds[2] > idx
                     THEN walk(vis + 1, j.pointer_map[path].bounds[2])
                     ELSE walk(vis + 1, idx + 1))
    IN walk(visible, line_idx)

RECURSIVE line_to_visible_from(_, _, _, _)
\* The while loop of line_to_visible, entered with the given counters
line_to_visible_from(j, target_line, visible, line_idx) ==
    IF line_idx >= target_line THEN Some(visible)
    ELSE IF line_idx >= Len(j.formatted) THEN None
    ELSE Let(j.formatted[line_idx + 1].pointer, LAMBDA path :
             IF path \in j.folds /\ path \in DOMAIN j.pointer_map
             THEN line_to_visible_from(j, target_line, visible + 1,
                                       j.pointer_map[path].bounds[2] + 1)
             ELSE line_to_visible_from(j, target_line, visible + 1, line_idx + 1))

line_to_visible(j, target_line) == line_to_visible_from(j, target_line, 0, 0)

\* unwrap_or(0)
visible_line_count(j) ==
    Let(line_to_visible(j, Len(j.formatted)), LAMBDA r : IF r = None THEN 0 ELSE r[1])

\* saturating_sub(1) on the end, unwrap_or on both
visible_bounds(j) ==
    Let(bounds(j), LAMBDA b :
    Let(line_to_visible(j, b[1]), LAMBDA s0 :
    Let(IF s0 = None THEN 0 ELSE s0[1], LAMBDA visible_start :
    Let(line_to_visible(j, b[2] + 1), LAMBDA e0 :
    Let(IF e0 = None THEN visible_start + 1 ELSE e0[1], LAMBDA visible_end :
        <<visible_start, IF visible_end = 0 THEN 0 ELSE visible_end - 1>>)))))

parent_value(j) == value_pointer(j.value, json_pointer(parent_tokens(j.pointer)))

\* Mutant of token_value_pair: an array element's index is handed out as
\* its key.
token_value_pair_index_key(j) ==
    Let(Json_value(j), LAMBDA v :
        IF v = None THEN None
        ELSE Let(Json_token(j), LAMBDA t :
                 IF t = None THEN Some(<<None, v[1]>>)
                 ELSE IF t[1].tag = "Index" THEN Some(<<Some(Decimal(t[1].idx)), v[1]>>)
                 ELSE Some(<<as_key(t[1]), v[1]>>)))

value_is_array_element(j) == parent_value(j) # None /\ is_array(parent_value(j)[1])

\* Option<(Option<String>, &Value)> as None or Some(<<key, value>>)
token_value_pair(j) ==
    Let(Json_value(j), LAMBDA v :
        IF v = None THEN None
        ELSE IF value_is_array_element(j) THEN Some(<<None, v[1]>>)
        ELSE Let(Json_token(j), LAMBDA t :
                 IF t = None THEN Some(<<None, v[1]>>)
                 ELSE Some(<<as_key(t[1]), v[1]>>)))

\* Mutant of fold: the lines hidden by the fold are taken out of the
\* flattened lines.
fold_drop_lines(j, tokens) ==
    [json |-> [j EXCEPT !.folds = @ \cup {tokens},
                        !.formatted =
                            IF tokens \in DOMAIN j.pointer_map
                            THEN SubSeq(@, 1, j.pointer_map[tokens].bounds[1] + 1)
                                 \o SubSeq(@, j.pointer_map[tokens].bounds[2] + 2, Len(@))
                            ELSE @],
     ret |-> tokens \notin j.folds]

\* HashSet::insert / HashSet::remove with their boolean results
fold(j, tokens) == [json |-> [j EXCEPT !.folds = @ \cup {tokens}], ret |-> tokens \notin j.folds]

unfold(j, tokens) == [json |-> [j EXCEPT !.folds = @ \ {tokens}], ret |-> tokens \in j.folds]

\* Mutant of first_child: the last child instead of the first.
first_child_is_last(j) ==
    Let(Json_value(j), LAMBDA v :
        IF v = None THEN None
        ELSE IF is_object(v[1])
             THEN (IF v[1].keys # <<>> THEN Some(Key(v[1].keys[Len(v[1].keys)])) ELSE None)
        ELSE IF is_array(v[1])
             THEN (IF v[1].kids # <<>> THEN Some(Index(Len(v[1].kids) - 1)) ELSE None)
        ELSE None)

first_child(j) ==
    Let(Json_value(j), LAMBDA v :
        IF v = None THEN None
        ELSE IF is_object(v[1])
             THEN (IF v[1].keys # <<>> THEN Some(Key(v[1].keys[1])) ELSE None)
        ELSE IF is_array(v[1])
             THEN (IF v[1].kids # <<>> THEN Some(Index(0)) ELSE None)
        ELSE None)

\* o.keys().position(|k| *k == key), 0-based
position(keys, key) ==
    IF \E i \in 1..Len(keys) : keys[i] = key
    THEN Some((CHOOSE i \in 1..Len(keys) : keys[i] = key /\ \A h \in 1..(i - 1) : keys[h] # key) - 1)
    ELSE None

Found(t) == [tok |-> t, panic |-> FALSE]

Panic == [tok |-> None, panic |-> TRUE]

\* The sibling before the token t among the children of the parent value v
prev_of(v, t) ==
    IF v = None THEN Found(None)
    ELSE IF is_object(v[1])
         THEN IF t = None \/ as_key(t[1]) = None THEN Found(None)
              ELSE Let(position(v[1].keys, as_key(t[1])[1]), LAMBDA key_idx :
                       IF key_idx = None THEN Panic
                       ELSE IF key_idx[1] > 0
                            THEN Found(Some(Key(v[1].keys[key_idx[1]])))
                            ELSE Found(None))
    ELSE IF is_array(v[1])
         THEN IF t = None \/ as_index(t[1]) = None THEN Found(None)
              ELSE IF as_index(t[1])[1] > 0
                   THEN Found(Some(Index(as_index(t[1])[1] - 1)))
                   ELSE Found(None)
    ELSE Found(None)

prev_sibling(j) ==
    IF is_at_start(j.pointer) THEN Found(None)
    ELSE prev_of(parent_value(j), Json_token(j))

\* The sibling after the token t among the children of the parent value v.
\* a.len() - 1 on an empty array underflows (a panic in a debug build); it
\* needs a cursor inside an empty array.
next_of(v, t) ==
    IF v = None THEN Found(None)
    ELSE IF is_object(v[1])
         THEN IF t = None \/ as_key(t[1]) = None THEN Found(None)
              ELSE Let(position(v[1].keys, as_key(t[1])[1]), LAMBDA key_idx :
                       IF key_idx = None THEN Panic
                       ELSE IF key_idx[1] < Len(v[1].keys) - 1
                            THEN Found(Some(Key(v[1].keys[key_idx[1] + 2])))
                            ELSE Found(None))
    ELSE IF is_array(v[1])
         THEN IF t = None \/ as_index(t[1]) = None THEN Found(None)
              ELSE IF Len(v[1].kids) = 0 THEN Panic
              ELSE IF as_index(t[1])[1] < Len(v[1].kids) - 1
                   THEN Found(Some(Index(as_index(t[1])[1] + 1)))
                   ELSE Found(None)
    ELSE Found(None)

\* Mutant of next_sibling: looks toward the start of the parent.
next_sibling_backwards(j) ==
    IF is_at_start(j.pointer) THEN Found(None)
    ELSE prev_of(parent_value(j), Json_token(j))

\* Mutant of next_sibling: a last child is its own next sibling.
next_sibling_stays(j) ==
    IF is_at_start(j.pointer) THEN Found(None)
    ELSE Let(next_of(parent_value(j), Json_token(j)), LAMBDA s :
             IF s.panic \/ s.tok # None THEN s ELSE Found(Json_token(j)))

next_sibling(j) ==
    IF is_at_start(j.pointer) THEN Found(None)
    ELSE next_of(parent_value(j), Json_token(j))

\* The cursor has moved: the node it is on now is unfolded, true is returned
entered(j) == [json |-> unfold(j, Json_tokens(j)).json, ret |-> TRUE]

\* Mutant of go_in: descends without unfolding the node it leaves.
go_in_keep_fold(j) ==
    IF ~is_at_end(j.pointer)
    THEN entered([j EXCEPT !.pointer = forward(@)])
    ELSE Let(first_child(j), LAMBDA c :
             IF c # None
             THEN entered([j EXCEPT !.pointer = forward(push(@, c[1]))])
             ELSE [json |-> j, ret |-> FALSE])

\* Mutant of go_in: always descends into the first child and forgets what
\* was remembered beyond the cursor.
go_in_first_child(j) ==
    Let(unfold(j, Json_tokens(j)).json, LAMBDA j1 :
    Let(first_child(j1), LAMBDA c :
        IF c # None
        THEN entered([j1 EXCEPT !.pointer =
                         [tokens |-> Append(Json_tokens(j1), c[1]),
                          cursor |-> Some(Len(Json_tokens(j1)))]])
        ELSE [json |-> j1, ret |-> FALSE]))

go_in(j) ==
    Let(unfold(j, Json_tokens(j)).json, LAMBDA j1 :
        IF ~is_at_end(j1.pointer)
        THEN entered([j1 EXCEPT !.pointer = forward(@)])
        ELSE Let(first_child(j1), LAMBDA c :
                 IF c # None
                 THEN entered([j1 EXCEPT !.pointer = forward(push(@, c[1]))])
                 ELSE [json |-> j1, ret |-> FALSE]))

go_out(j) ==
    IF is_at_start(j.pointer) THEN [json |-> j, ret |-> FALSE]
    ELSE [json |-> [j EXCEPT !.pointer = back(@)], ret |-> TRUE]

\* reset_cursor panics when the cursor is unset
move_to_sibling(j, s) ==
    IF j.pointer.cursor = None THEN [json |-> [j EXCEPT !.panicked = TRUE], ret |-> FALSE]
    ELSE [json |-> [j EXCEPT !.pointer = reset_cursor(@, s)], ret |-> TRUE]

RECURSIVE go_prev(_)
go_prev(j) ==
    Let(prev_sibling(j), LAMBDA s :
        IF s.panic THEN [json |-> [j EXCEPT !.panicked = TRUE], ret |-> FALSE]
        ELSE IF s.tok # None THEN move_to_sibling(j, s.tok[1])
        ELSE Let(go_out(j), LAMBDA o : IF o.ret THEN go_prev(o.json) ELSE o))

RECURSIVE go_next(_)
go_next(j) ==
    Let(next_sibling(j), LAMBDA s :
        IF s.panic THEN [json |-> [j EXCEPT !.panicked = TRUE], ret |-> FALSE]
        ELSE IF s.tok # None THEN move_to_sibling(j, s.tok[1])
        ELSE Let(go_out(j), LAMBDA o : IF o.ret THEN go_next(o.json) ELSE o))

is_primitive(v) == v # None /\ ~is_object(v[1]) /\ ~is_array(v[1])

\* Mutant of toggle_fold: toggles the selected node whatever its kind.
toggle_fold_any_kind(j) ==
    Let(Json_tokens(j), LAMBDA tokens :
        IF tokens \in j.folds THEN unfold(j, tokens) ELSE fold(j, tokens))

\* Mutant of toggle_fold: folds, and never unfolds.
toggle_fold_insert_only(j) ==
    Let(IF is_primitive(Json_value(j)) THEN go_out(j).json ELSE j, LAMBDA k :
        [json |-> fold(k, Json_tokens(k)).json, ret |-> TRUE])

RECURSIVE toggle_fold(_)
toggle_fold(j) ==
    IF is_primitive(Json_value(j))
    THEN Let(go_out(j), LAMBDA o : IF o.ret THEN toggle_fold(o.json) ELSE o)
    ELSE Let(Json_tokens(j), LAMBDA tokens :
             IF tokens \in j.folds THEN unfold(j, tokens) ELSE fold(j, tokens))

Composites(j) ==
    {t \in DOMAIN j.pointer_map : j.pointer_map[t].value \in {"Object", "Array"}}

toggle_fold_all(j) ==
    IF j.all_folded
    THEN [json |-> [j EXCEPT !.folds = {}, !.all_folded = FALSE], ret |-> TRUE]
    ELSE [json |-> [j EXCEPT !.folds = @ \cup Composites(j),
                             !.pointer = rewind(@),
                             !.all_folded = TRUE],
          ret |-> TRUE]

set_selection(j, tokens) == [j EXCEPT !.pointer = set_path(j.pointer, tokens)]

\* ------------------------------------------------------------------------
\* The search jump of the event loop
\* ------------------------------------------------------------------------

\* str::trim_matches('"')
RECURSIVE trim_start(_)
trim_start(s) == IF s # <<>> /\ Head(s) = "\"" THEN trim_start(Tail(s)) ELSE s

RECURSIVE trim_end(_)
trim_end(s) ==
    IF s # <<>> /\ s[Len(s)] = "\"" THEN trim_end(SubSeq(s, 1, Len(s) - 1)) ELSE s

trim_matches(s) == trim_end(trim_start(s))

\* The lines on which perform_search can record a match for some query:
\* a fragment that is neither punctuation nor whitespace and has text left
\* once its quotes are trimmed.
MatchLines(formatted) ==
    {ln \in 0..(Len(formatted) - 1) :
        \E e \in 1..Len(formatted[ln + 1].elements) :
            /\ formatted[ln + 1].elements[e].class \notin {"Punct", "Whitespace"}
            /\ trim_matches(formatted[ln + 1].elements[e].text) # <<>>}

RECURSIVE remove_prefixes(_, _, _)
remove_prefixes(folds, pointer, i) ==
    IF i >= Len(pointer) THEN folds
    ELSE remove_prefixes(folds \ {SubSeq(pointer, 1, i + 1)}, pointer, i + 1)

ensure_match_visible(j, line_number) ==
    IF line_number >= Len(j.formatted) THEN j
    ELSE Let(j.formatted[line_number + 1].pointer, LAMBDA path :
             set_selection([j EXCEPT !.folds = remove_prefixes(@, path, 0)], path))

\* ------------------------------------------------------------------------
\* Search: perform_search and SearchResults
\* ------------------------------------------------------------------------

\* char::len_utf8: the bytes a character takes in a Rust string
len_utf8(c) == IF c = "e-acute" THEN 2 ELSE 1

RECURSIVE byte_len(_)
\* str::len: the length of a string in bytes
byte_len(s) == IF s = <<>> THEN 0 ELSE len_utf8(Head(s)) + byte_len(Tail(s))

\* The number of characters before byte offset b; None when b is not on a
\* character boundary of s (slicing there panics)
char_boundary(s, b) ==
    Let({k \in 0..Len(s) : byte_len(SubSeq(s, 1, k)) = b}, LAMBDA ks :
        IF ks = {} THEN None ELSE Some(CHOOSE k \in ks : TRUE))

to_lowercase_char(c) == IF c = "A" THEN "a" ELSE IF c = "B" THEN "b" ELSE c

\* str::to_lowercase
to_lowercase(s) == [i \in 1..Len(s) |-> to_lowercase_char(s[i])]

\* str::find: the byte offset of the first occurrence of needle
str_find(haystack, needle) ==
    Let({k \in 0..(Len(haystack) - Len(needle)) :
            SubSeq(haystack, k + 1, k + Len(needle)) = needle}, LAMBDA ks :
        IF ks = {} THEN None
        ELSE Some(byte_len(SubSeq(haystack, 1,
                      (CHOOSE k \in ks : \A m \in ks : k <= m)))))

SearchMatch(line_number, element_index, char_offset, char_positions) ==
    [line_number |-> line_number, element_index |-> element_index,
     char_offset |-> char_offset, char_positions |-> char_positions]

SearchResults_new(query, matches) ==
    [query |-> query, matches |-> matches, current_index |-> None]

RECURSIVE find_from(_, _, _, _, _)
\* The while-let loop of perform_search over one element e (its line number,
\* index and quote offset): search_text_lower[start..].find(&query_lower)
find_from(e, query, search_text_lower, start, acc) ==
    Let(char_boundary(search_text_lower, start), LAMBDA k :
        IF k = None THEN [matches |-> acc, panic |-> TRUE]
        ELSE Let(str_find(SubSeq(search_text_lower, k[1] + 1, Len(search_text_lower)),
                          to_lowercase(query)), LAMBDA pos :
             IF pos = None THEN [matches |-> acc, panic |-> FALSE]
             ELSE Let(start + pos[1], LAMBDA match_start :
                  find_from(e, query, search_text_lower, match_start + 1,
                      Append(acc, SearchMatch(e.line_number, e.element_index,
                          match_start + e.quote_offset,
                          {i + e.quote_offset :
                              i \in match_start..(match_start + Len(query) - 1)}))))))

\* if text.starts_with('"') { 1 } else { 0 }
quote_offset(text) == IF text # <<>> /\ Head(text) = "\"" THEN 1 ELSE 0

\* Mutant of search_element: punctuation and whitespace are searched too.
search_element_every_class(line, elem_idx, query, acc) ==
    Let(line.elements[elem_idx + 1], LAMBDA elem :
        find_from([line_number |-> line.line_number, element_index |-> elem_idx,
                   quote_offset |-> quote_offset(elem.text)],
                  query, to_lowercase(trim_matches(elem.text)), 0, acc))

\* The body of perform_search's inner loop for one element
search_element(line, elem_idx, query, acc) ==
    Let(line.elements[elem_idx + 1], LAMBDA elem :
        IF elem.class \in {"Punct", "Whitespace"}
        THEN [matches |-> acc, panic |-> FALSE]
        ELSE find_from([line_number |-> line.line_number, element_index |-> elem_idx,
                        quote_offset |-> quote_offset(elem.text)],
                       query, to_lowercase(trim_matches(elem.text)), 0, acc))

RECURSIVE search_from(_, _, _, _, _)
\* The two for loops of perform_search from line li, element ei (0-based)
search_from(formatted_lines, query, li, ei, acc) ==
    IF li >= Len(formatted_lines) THEN [matches |-> acc, panic |-> FALSE]
    ELSE IF ei >= Len(formatted_lines[li + 1].elements)
         THEN search_from(formatted_lines, query, li + 1, 0, acc)
    ELSE Let(search_element(formatted_lines[li + 1], ei, query, acc), LAMBDA r :
             IF r.panic THEN r
             ELSE search_from(formatted_lines, query, li, ei + 1, r.matches))

\* perform_search: the results, or a panic
perform_search(formatted_lines, query) ==
    IF query = <<>>
    THEN [results |-> SearchResults_new(query, <<>>), panic |-> FALSE]
    ELSE Let(search_from(formatted_lines, query, 0, 0, <<>>), LAMBDA r :
             [results |-> SearchResults_new(query, r.matches), panic |-> r.panic])

\* SearchResults::current
SearchResults_current(r) ==
    IF r.current_index = None THEN None
    ELSE IF r.current_index[1] < Len(r.matches)
         THEN Some(r.matches[r.current_index[1] + 1])
         ELSE None

\* Mutant of SearchResults_next: the index goes up without wrapping.
SearchResults_next_no_wrap(r) ==
    IF r.matches = <<>> THEN [results |-> r, ret |-> None]
    ELSE Let([r EXCEPT !.current_index = Some(IF @ = None THEN 0 ELSE @[1] + 1)],
             LAMBDA r1 : [results |-> r1, ret |-> SearchResults_current(r1)])

\* SearchResults::next
SearchResults_next(r) ==
    IF r.matches = <<>> THEN [results |-> r, ret |-> None]
    ELSE Let([r EXCEPT !.current_index =
                 Some(IF @ = None THEN 0 ELSE (@[1] + 1) % Len(r.matches))],
             LAMBDA r1 : [results |-> r1, ret |-> SearchResults_current(r1)])

\* Mutant of SearchResults_prev: from the first match it wraps to the
\* length of the match list, one past the last match.
SearchResults_prev_past_end(r) ==
    IF r.matches = <<>> THEN [results |-> r, ret |-> None]
    ELSE Let([r EXCEPT !.current_index =
                 Some(IF @ = None THEN Len(r.matches) - 1
                      ELSE IF @ = Some(0) THEN Len(r.matches)
                      ELSE @[1] - 1)],
             LAMBDA r1 : [results |-> r1, ret |-> SearchResults_current(r1)])

\* SearchResults::prev
SearchResults_prev(r) ==
    IF r.matches = <<>> THEN [results |-> r, ret |-> None]
    ELSE Let([r EXCEPT !.current_index =
                 Some(IF @ = None \/ @ = Some(0) THEN Len(r.matches) - 1 ELSE @[1] - 1)],
             LAMBDA r1 : [results |-> r1, ret |-> SearchResults_current(r1)])

\* SearchResults::get_current
get_current(r, line_number, element_index) ==
    Let(SearchResults_current(r), LAMBDA m :
        IF m # None /\ m[1].line_number = line_number
                    /\ m[1].element_index = element_index
        THEN m ELSE None)

\* SearchResults::get_match: iter().find, the first match of the fragment
get_match(r, line_number, element_index) ==
    Let({i \in 1..Len(r.matches) : /\ r.matches[i].line_number = line_number
                                   /\ r.matches[i].element_index = element_index},
        LAMBDA is :
            IF is = {} THEN None
            ELSE Some(r.matches[CHOOSE i \in is : \A k \in is : i <= k]))

\* render_body's match_positions for a fragment: the characters that get
\* the highlight background (none when the lookup gives None)
match_positions(results, line_number, elem_idx) ==
    IF results = None THEN {}
    ELSE Let(get_current(results[1], line_number, elem_idx), LAMBDA c :
             IF c # None THEN c[1].char_positions
             ELSE Let(get_match(results[1], line_number, elem_idx), LAMBDA m :
                      IF m # None THEN m[1].char_positions ELSE {}))

\* Mutant of status_text: the current index is shown as it is stored.
status_text_zero_based(r) ==
    IF r.matches = <<>> THEN <<"0", "/", "0">>
    ELSE IF r.current_index # None
         THEN Decimal(r.current_index[1]) \o <<"/">> \o Decimal(Len(r.matches))
         ELSE <<"-", "/">> \o Decimal(Len(r.matches))

\* SearchResults::status_text
status_text(r) ==
    IF r.matches = <<>> THEN <<"0", "/", "0">>
    ELSE IF r.current_index # None
         THEN Decimal(r.current_index[1] + 1) \o <<"/">> \o Decimal(Len(r.matches))
         ELSE <<"-", "/">> \o Decimal(Len(r.matches))

\* ------------------------------------------------------------------------
\* The documents
\* ------------------------------------------------------------------------

Catalogue ==
    << \* {"a": {"b": 0}}
       Obj(<< <<"a">> >>, << Obj(<< <<"b">> >>, << Num("0") >>) >>),
       \* {"a": [0, {"/": "foo", "~": [true, null]}]}
       Obj(<< <<"a">> >>,
           << Arr(<< Num("0"),
                     Obj(<< <<"/">>, <<"~">> >>,
                         << Str(<<"f", "o", "o">>), Arr(<< True, Null >>) >>) >>) >>),
       \* {}
       Obj(<<>>, <<>>),
       \* []
       Arr(<<>>),
       \* [["a"]]
       Arr(<< Arr(<< Str(<<"a">>) >>) >>),
       \* {"a": 0, "b": 1}
       Obj(<< <<"a">>, <<"b">> >>, << Num("0"), Num("1") >>),
       \* ["a", "b"]
       Arr(<< Str(<<"a">>), Str(<<"b">>) >>),
       \* 0
       Num("0"),
       \* {"a": [0, {"x": 1, "y": 2}], "b": 2}
       Obj(<< <<"a">>, <<"b">> >>,
           << Arr(<< Num("0"),
                     Obj(<< <<"x">>, <<"y">> >>, << Num("1"), Num("2") >>) >>),
              Num("2") >>),
       \* [[0, 1], [2], {}]
       Arr(<< Arr(<< Num("0"), Num("1") >>), Arr(<< Num("2") >>), Obj(<<>>, <<>>) >>),
       \* {"k": [1, 2, 3]}
       Obj(<< <<"k">> >>, << Arr(<< Num("1"), Num("2"), Num("3") >>) >>),
       \* {"a/b": {"~1": []}, "": [{}, ""]}
       Obj(<< <<"a", "/", "b">>, <<>> >>,
           << Obj(<< <<"~", "1">> >>, << Arr(<<>>) >>),
              Arr(<< Obj(<<>>, <<>>), Str(<<>>) >>) >>) >>

Docs == {Catalogue[i] : i \in 1..Min(MaxDoc, Len(Catalogue))}

\* The documents that are searched
SearchDocs ==
    { \* {"a": "aaa"}
      Obj(<< <<"a">> >>, << Str(<<"a", "a", "a">>) >>),
      \* ["\"a\"", "ba"]
      Arr(<< Str(<<"\"", "a", "\"">>), Str(<<"b", "a">>) >>),
      \* ["\"\"Aa"]
      Arr(<< Str(<<"\"", "\"", "A", "a">>) >>),
      \* [e-acute a]: a string of a two-byte character and "a"
      Arr(<< Str(<<"e-acute", "a">>) >>),
      \* {"A": [true, {"aa": null}]}
      Obj(<< <<"A">> >>,
          << Arr(<< True, Obj(<< <<"a", "a">> >>, << Null >>) >>) >>) }

\* The texts that are typed into the search prompt
Queries == {<<"a">>, <<"a", "a">>, <<"A">>, <<"A", "a">>, <<"e-acute">>, <<"b">>, <<":">>}

\* The texts that are typed into the prompt of a session on document v:
\* all of them on the searched documents, one elsewhere
Typed(v) == IF v \in SearchDocs THEN Queries ELSE {<<"a">>}

\* ------------------------------------------------------------------------
\* State
\* ------------------------------------------------------------------------

VARIABLES
    value,          \* Json.value: the document
    pointer,        \* Json.pointer: [tokens, cursor]
    folds,          \* Json.folds: the set of folded paths
    all_folded,     \* Json.all_folded
    formatted,      \* Json.formatted: the flattened lines
    pointer_map,    \* Json.pointer_map: the fold index
    panicked,       \* an operation hit a panic
    op,             \* the last operation
    ret,            \* what it returned
    pre,            \* pointer, folds, all_folded, search_results and flash before it
    search_input,   \* event_loop's search_input: the text of the open prompt
    search_results, \* event_loop's search_results
    last_search,    \* event_loop's last_search
    ui,             \* event_loop's ui: [footer_height, flash]
    help_visible,   \* event_loop's help_visible
    output,         \* event_loop's output
    returned,       \* None inside the loop, then "Ok" or "Err": how event_loop returned
    copied,         \* the text the last iteration put on the clipboard
    renders         \* the calls of ui.render in the last iteration

vars == <<value, pointer, folds, all_folded, formatted, pointer_map, panicked, op, ret, pre,
          search_input, search_results, last_search,
          ui, help_visible, output, returned, copied, renders>>

self ==
    [pointer |-> pointer, value |-> value, folds |-> folds, all_folded |-> all_folded,
     formatted |-> formatted, pointer_map |-> pointer_map, panicked |-> panicked]

Snapshot(j) ==
    [pointer |-> j.pointer, folds |-> j.folds, all_folded |-> j.all_folded,
     results |-> search_results, flash |-> ui.flash]

\* The Json as it was before the last operation
before == [self EXCEPT !.pointer = pre.pointer, !.folds = pre.folds,
                       !.all_folded = pre.all_folded]

CommitJson(j, name, result) ==
    /\ value' = j.value
    /\ pointer' = j.pointer
    /\ folds' = j.folds
    /\ all_folded' = j.all_folded
    /\ formatted' = j.formatted
    /\ pointer_map' = j.pointer_map
    /\ panicked' = j.panicked
    /\ op' = name
    /\ ret' = result
    /\ pre' = Snapshot(self)

\* read_event's search_mode
search_mode == search_input # None

\* The loop runs and read_event reads the keys of the normal mode
Normal == ~panicked /\ returned = None /\ ~help_visible /\ ~search_mode

\* The loop runs and read_event reads the keys of the search prompt
Prompt == ~panicked /\ returned = None /\ ~help_visible /\ search_mode

\* The flash message of a copy: its mode, and whether its time is over
Flash(mode, expired) == [mode |-> mode, expired |-> expired]

\* Option<Duration>: the time the flash message still has
flash_remaining(u) == IF u.flash = None THEN None ELSE Some(~u.flash[1].expired)

start_flash(u, mode) == [u EXCEPT !.flash = Some(Flash(mode, FALSE))]

clear_flash_if_expired(u) ==
    IF u.flash # None /\ u.flash[1].expired
    THEN [ui |-> [u EXCEPT !.flash = None], ret |-> TRUE]
    ELSE [ui |-> u, ret |-> FALSE]

\* The top of an iteration of the loop: ui and needs_redraw after
\* clear_flash_if_expired
top == clear_flash_if_expired(ui)

\* The bottom of an iteration: one render when needs_redraw is set
Rendered(needs_redraw) == renders' = IF needs_redraw THEN 1 ELSE 0

\* An iteration that stays in the loop and copies nothing
Handled(u, needs_redraw) ==
    /\ ui' = u
    /\ Rendered(needs_redraw)
    /\ copied' = None
    /\ UNCHANGED <<help_visible, output, returned>>

\* Mutant of Commit: the handler's result is added to needs_redraw, not
\* assigned to it.
Commit_or_redraw(j, name, result) ==
    /\ CommitJson(j, name, result)
    /\ UNCHANGED <<search_input, search_results, last_search>>
    /\ Handled(top.ui, top.ret \/ result)

\* A handler that assigns its operation's result to needs_redraw and
\* leaves the search state alone
Commit(j, name, result) ==
    /\ CommitJson(j, name, result)
    /\ UNCHANGED <<search_input, search_results, last_search>>
    /\ Handled(top.ui, result)

\* A handler of the search state: result is whether it sets needs_redraw,
\* footer is ui.footer_height after it
CommitSearch(j, input, results, last, name, result, footer) ==
    /\ CommitJson(j, name, result)
    /\ search_input' = input
    /\ search_results' = results
    /\ last_search' = last
    /\ Handled([top.ui EXCEPT !.footer_height = footer], top.ret \/ result)

\* The state event_loop starts in on document v
Start(v) ==
    \E j \in {Json_from(v)} :
           /\ search_input = None
           /\ search_results = None
           /\ last_search = None
           /\ ui = [footer_height |-> 0, flash |-> None]
           /\ help_visible = FALSE
           /\ output = None
           /\ returned = None
           /\ copied = None
           /\ renders = 1
           /\ value = j.value
           /\ pointer = j.pointer
           /\ folds = j.folds
           /\ all_folded = j.all_folded
           /\ formatted = j.formatted
           /\ pointer_map = j.pointer_map
           /\ panicked = j.panicked
           /\ op = "new"
           /\ ret = TRUE
           /\ pre = Snapshot(j)

Init == \E v \in Docs : Start(v)

GoIn == Normal /\ \E r \in {go_in(self)} : Commit(r.json, "go_in", r.ret)

GoOut == Normal /\ \E r \in {go_out(self)} : Commit(r.json, "go_out", r.ret)

GoPrev == Normal /\ \E r \in {go_prev(self)} : Commit(r.json, "go_prev", r.ret)

GoNext == Normal /\ \E r \in {go_next(self)} : Commit(r.json, "go_next", r.ret)

ToggleFold == Normal /\ \E r \in {toggle_fold(self)} : Commit(r.json, "toggle_fold", r.ret)

ToggleFoldAll ==
    Normal /\ \E r \in {toggle_fold_all(self)} : Commit(r.json, "toggle_fold_all", r.ret)

SearchJump ==
    /\ Normal
    /\ \E ln \in MatchLines(formatted) :
          Commit(ensure_match_visible(self, ln), "search_jump", TRUE)

Next ==
    \/ GoIn
    \/ GoOut
    \/ GoPrev
    \/ GoNext
    \/ ToggleFold
    \/ ToggleFoldAll
    \/ SearchJump

Spec == Init /\ [][Next]_vars

\* The operations of Json alone, without the search
NextNav ==
    \/ GoIn
    \/ GoOut
    \/ GoPrev
    \/ GoNext
    \/ ToggleFold
    \/ ToggleFoldAll

SpecNav == Init /\ [][NextNav]_vars

\* ------------------------------------------------------------------------
\* The search prompt of the event loop
\* ------------------------------------------------------------------------

\* The characters that are typed
QueryChars == UNION {{q[i] : i \in 1..Len(q)} : q \in Queries}

\* ensure_match_visible on the match m, when there is one
JumpTo(j, m) == IF m = None THEN j ELSE ensure_match_visible(j, m[1].line_number)

\* results.matches.first()
first_match(r) == IF r.matches = <<>> THEN None ELSE Some(r.matches[1])

\* perform_search has panicked on the text just put into the prompt: the
\* session is over
SearchPanic(input, name) ==
    /\ panicked' = TRUE
    /\ search_input' = Some(input)
    /\ op' = name
    /\ ret' = FALSE
    /\ pre' = Snapshot(self)
    /\ UNCHANGED <<value, pointer, folds, all_folded, formatted, pointer_map,
                   search_results, last_search,
                   ui, help_visible, output, returned, copied, renders>>

\* The prompt's text has become input: search, jump to the first match
Searched(input, name) ==
    \E s \in {perform_search(formatted, input)} :
        IF s.panic THEN SearchPanic(input, name)
        ELSE CommitSearch(JumpTo(self, first_match(s.results)),
                          Some(input), Some(s.results), last_search, name, TRUE,
                          ui.footer_height)

Search ==
    /\ Normal
    /\ CommitSearch(self, Some(<<>>), search_results, last_search, "search", TRUE, 1)

SearchInput ==
    /\ Prompt
    /\ \E c \in QueryChars :
          /\ Append(search_input[1], c) \in Typed(value)
          /\ Searched(Append(search_input[1], c), "search_input")

SearchBackspace ==
    /\ Prompt
    /\ \E input \in {SubSeq(search_input[1], 1, Len(search_input[1]) - 1)} :
          IF input = <<>>
          THEN CommitSearch(self, Some(input), None, last_search, "search_backspace", TRUE,
                            ui.footer_height)
          ELSE Searched(input, "search_backspace")

SearchConfirm ==
    /\ Prompt
    /\ IF search_results = None
       THEN CommitSearch(self, None, None, last_search, "search_confirm", TRUE, 0)
       ELSE \E r \in {IF search_results[1].matches # <<>>
                       THEN [search_results[1] EXCEPT !.current_index = Some(0)]
                       ELSE search_results[1]} :
               CommitSearch(IF r.matches # <<>> THEN JumpTo(self, SearchResults_current(r))
                            ELSE self,
                            None, Some(r), Some(r), "search_confirm", TRUE, 1)

SearchCancel ==
    /\ Prompt
    /\ CommitSearch(self, None, last_search, last_search, "search_cancel", TRUE,
                    IF last_search # None THEN 1 ELSE 0)

\* RepeatSearch and RepeatSearchBackward: revive the last search when the
\* results were cleared, then step and jump
Repeat(backward, name) ==
    \E revived \in {IF search_results = None THEN last_search ELSE search_results} :
        IF revived = None
        THEN CommitSearch(self, search_input, revived, last_search, name, FALSE,
                          ui.footer_height)
        ELSE \E n \in {IF backward THEN SearchResults_prev(revived[1])
                        ELSE SearchResults_next(revived[1])} :
                CommitSearch(JumpTo(self, n.ret), search_input, Some(n.results),
                             last_search, name, n.ret # None,
                             IF search_results = None THEN 1 ELSE ui.footer_height)

RepeatSearch ==
    /\ Normal
    /\ Repeat(FALSE, "repeat_search")

RepeatSearchBackward ==
    /\ Normal
    /\ Repeat(TRUE, "repeat_search_backward")

ClearSearch ==
    /\ Normal
    /\ IF search_results # None
       THEN CommitSearch(self, search_input, None, search_results, "clear_search", TRUE, 0)
       ELSE CommitSearch(self, search_input, search_results, last_search,
                         "clear_search", FALSE, ui.footer_height)

NextSearch ==
    \/ Search
    \/ SearchInput
    \/ SearchBackspace
    \/ SearchConfirm
    \/ SearchCancel
    \/ RepeatSearch
    \/ RepeatSearchBackward
    \/ ClearSearch

InitSearch == \E v \in SearchDocs : Start(v)

SpecSearch == InitSearch /\ [][NextSearch]_vars

\* ------------------------------------------------------------------------
\* Output and clipboard
\* ------------------------------------------------------------------------

RECURSIVE Concat(_)
Concat(ss) == IF ss = <<>> THEN <<>> ELSE Head(ss) \o Concat(Tail(ss))

Join(ss, sep) ==
    IF ss = <<>> THEN <<>>
    ELSE Head(ss) \o Concat([i \in 1..(Len(ss) - 1) |-> sep \o ss[i + 1]])

\* A JSON string literal: quotes and backslashes are escaped
quoted(s) ==
    <<"\"">> \o Concat([i \in 1..Len(s) |->
                          IF s[i] = "\"" THEN <<"\\", "\"">>
                          ELSE IF s[i] = "\\" THEN <<"\\", "\\">>
                          ELSE <<s[i]>>]) \o <<"\"">>

RECURSIVE to_string(_)
\* Value's Display: the single-line form
to_string(v) ==
    IF is_object(v)
    THEN <<"{">> \o Join([i \in 1..Len(v.keys) |->
                             quoted(v.keys[i]) \o <<":">> \o to_string(v.kids[i])],
                         <<",">>) \o <<"}">>
    ELSE IF is_array(v)
    THEN <<"[">> \o Join([i \in 1..Len(v.kids) |-> to_string(v.kids[i])], <<",">>) \o <<"]">>
    ELSE IF v.kind = "String" THEN quoted(v.text)
    ELSE v.text

RECURSIVE pretty(_, _)
\* PrettyFormatter at a depth: two spaces for each level, one entry on a line
pretty(v, depth) ==
    LET indent(d) == [i \in 1..(2 * d) |-> " "]
        entries == IF is_object(v)
                   THEN [i \in 1..Len(v.keys) |->
                           indent(depth + 1) \o quoted(v.keys[i]) \o <<":", " ">>
                               \o pretty(v.kids[i], depth + 1)]
                   ELSE [i \in 1..Len(v.kids) |->
                           indent(depth + 1) \o pretty(v.kids[i], depth + 1)]
        open == IF is_object(v) THEN "{" ELSE "["
        close == IF is_object(v) THEN "}" ELSE "]"
    IN IF ~(is_object(v) \/ is_array(v)) THEN to_string(v)
       ELSE IF entries = <<>> THEN <<open, close>>
       ELSE <<open, "\n">> \o Join(entries, <<",", "\n">>) \o <<"\n">>
                \o indent(depth) \o <<close>>

to_string_pretty(v) == pretty(v, 0)

\* format!("\"{}\": {}", key, value)
selection(key, v) ==
    IF key # None THEN <<"\"">> \o key[1] \o <<"\"", ":", " ">> \o to_string(v)
    ELSE to_string(v)

selection_pretty(key, v) ==
    IF key # None THEN <<"\"">> \o key[1] \o <<"\"", ":", " ">> \o to_string_pretty(v)
    ELSE to_string_pretty(v)

\* The loop runs
Running == ~panicked /\ returned = None

\* The iteration returns from event_loop: nothing is rendered
Return(out, how, name) ==
    /\ CommitJson(self, name, TRUE)
    /\ ui' = top.ui
    /\ output' = out
    /\ returned' = Some(how)
    /\ copied' = None
    /\ renders' = 0
    /\ UNCHANGED <<search_input, search_results, last_search, help_visible>>

\* A handler that touches neither the document nor the search state: set
\* is whether it sets needs_redraw
Touch(u, name, set) == CommitSearch(self, search_input, search_results, last_search,
                                    name, set, u.footer_height)

\* output = Some(text); break
Output(text, name) == IF text = None THEN Touch(ui, name, FALSE)
                      ELSE Return(text, "Ok", name)

\* clipboard.set_text(text)?; ui.start_flash(mode); needs_redraw = true.
\* Whether the clipboard takes the text is up to the system.
Copy(text, mode, name) ==
    IF text = None THEN Touch(ui, name, FALSE)
    ELSE \E set_text \in {"Ok", "Err"} :
            IF set_text = "Err" THEN Return(output, "Err", name)
            ELSE /\ CommitJson(self, name, TRUE)
                 /\ ui' = start_flash(top.ui, mode)
                 /\ copied' = text
                 /\ renders' = 1
                 /\ UNCHANGED <<search_input, search_results, last_search,
                                help_visible, output, returned>>

\* json.token_value_pair() as the text of selection_pretty or of selection
Selected(j, is_pretty) ==
    Let(token_value_pair(j), LAMBDA p :
        IF p = None THEN None
        ELSE IF is_pretty THEN Some(selection_pretty(p[1][1], p[1][2]))
        ELSE Some(selection(p[1][1], p[1][2])))

OutputSelectionPretty ==
    Normal /\ Output(Selected(self, TRUE), "OutputSelectionPretty")

OutputValuePretty ==
    /\ Normal
    /\ Output(IF Json_value(self) = None THEN None ELSE Some(to_string(Json_value(self)[1])),
              "OutputValuePretty")

OutputSelectionRaw ==
    Normal /\ Output(Selected(self, FALSE), "OutputSelectionRaw")

OutputValueRaw ==
    /\ Normal
    /\ Output(IF Json_value(self) = None THEN None ELSE Some(to_string(Json_value(self)[1])),
              "OutputValueRaw")

CopySelectionPretty ==
    Normal /\ Copy(Selected(self, TRUE), "Selection", "CopySelectionPretty")

CopyValuePretty ==
    /\ Normal
    /\ Copy(IF Json_value(self) = None THEN None
            ELSE Some(to_string_pretty(Json_value(self)[1])),
            "Value", "CopyValuePretty")

CopySelectionRaw ==
    Normal /\ Copy(Selected(self, FALSE), "Selection", "CopySelectionRaw")

CopyValueRaw ==
    /\ Normal
    /\ Copy(IF Json_value(self) = None THEN None ELSE Some(to_string(Json_value(self)[1])),
            "Value", "CopyValueRaw")

\* ------------------------------------------------------------------------
\* The rest of the event loop
\* ------------------------------------------------------------------------

\* Mutant of read_event: 'q' quits in every mode.
read_event_quit_in_every_mode(search, help, modifiers) == "Quit"

\* read_event on a press of the key 'q' with the given modifiers: the help
\* overlay takes every key, the prompt takes plain characters, the normal
\* mode quits.
read_event(search, help, modifiers) ==
    IF help THEN "DismissHelp"
    ELSE IF search
         THEN IF modifiers \in {"NONE", "SHIFT"} THEN "SearchInput" ELSE "Ignore"
         ELSE "Quit"

\* KeyModifiers of a key press
Modifiers == {"NONE", "SHIFT", "ALT"}

Quit ==
    /\ Running
    /\ \E modifiers \in Modifiers :
          read_event(search_mode, help_visible, modifiers) = "Quit"
    /\ IF search_results # None
       THEN CommitSearch(self, search_input, None, search_results, "Quit", TRUE,
                         ui.footer_height)
       ELSE Return(output, "Ok", "Quit")

\* Resize, in every mode: whether the size has changed is the screen's answer
Resize ==
    /\ Running
    /\ \E changed \in BOOLEAN :
          /\ CommitJson(self, "Resize", changed)
          /\ Handled(top.ui, changed)
          /\ UNCHANGED <<search_input, search_results, last_search>>

\* ScrollLine .. ScrollRightMax: whether the offset has moved is the ui's
\* answer
Scroll ==
    /\ Normal
    /\ \E moved \in BOOLEAN : Commit(self, "Scroll", moved)

\* Sort, SortReverse, Filter, Ignore
Ignore == Running /\ ~help_visible /\ Touch(ui, "Ignore", FALSE)

\* ToggleLineNumbers, ToggleLineWrapping
ToggleLineNumbers == Normal /\ Touch(ui, "ToggleLineNumbers", TRUE)

ShowHelp ==
    /\ Normal
    /\ CommitJson(self, "ShowHelp", TRUE)
    /\ ui' = top.ui
    /\ help_visible' = TRUE
    /\ renders' = 1
    /\ copied' = None
    /\ UNCHANGED <<search_input, search_results, last_search, output, returned>>

\* Any key while the help is shown
DismissHelp ==
    /\ Running /\ help_visible
    /\ CommitJson(self, "DismissHelp", TRUE)
    /\ ui' = top.ui
    /\ help_visible' = FALSE
    /\ renders' = 1
    /\ copied' = None
    /\ UNCHANGED <<search_input, search_results, last_search, output, returned>>

\* Time passes while read_event waits: the flash message is due
FlashExpires ==
    /\ Running
    /\ ui.flash # None /\ ~ui.flash[1].expired
    /\ ui' = [ui EXCEPT !.flash = Some([@[1] EXCEPT !.expired = TRUE])]
    /\ UNCHANGED <<value, pointer, folds, all_folded, formatted, pointer_map, panicked,
                   op, ret, pre, search_input, search_results, last_search,
                   help_visible, output, returned, copied, renders>>

\* read_event returns None: its timeout, the time the flash message had
\* left, is over before an event arrives
FlashTimeout ==
    /\ Running
    /\ flash_remaining(top.ui) = Some(TRUE)
    /\ \E late \in {clear_flash_if_expired([top.ui EXCEPT !.flash[1].expired = TRUE])} :
          /\ CommitJson(self, "timeout", late.ret)
          /\ ui' = late.ui
          /\ renders' = IF late.ret THEN 1 ELSE 0
          /\ copied' = None
          /\ UNCHANGED <<search_input, search_results, last_search,
                         help_visible, output, returned>>

\* The documents of the sessions
LoopDocs ==
    { \* {"a": {"b": "a"}}
      Obj(<< <<"a">> >>, << Obj(<< <<"b">> >>, << Str(<<"a">>) >>) >>),
      \* ["\"a", []]
      Arr(<< Str(<<"\"", "a">>), Arr(<<>>) >>) }

\* Clipboard::new()? comes first: without a clipboard event_loop returns
\* its error before the loop
InitLoop ==
    \E v \in LoopDocs : \E clipboard \in {"Ok", "Err"} :
        \E j \in {Json_from(v)} :
           /\ search_input = None
           /\ search_results = None
           /\ last_search = None
           /\ ui = [footer_height |-> 0, flash |-> None]
           /\ help_visible = FALSE
           /\ output = None
           /\ returned = IF clipboard = "Ok" THEN None ELSE Some("Err")
           /\ copied = None
           /\ renders = IF clipboard = "Ok" THEN 1 ELSE 0
           /\ value = j.value
           /\ pointer = j.pointer
           /\ folds = j.folds
           /\ all_folded = j.all_folded
           /\ formatted = j.formatted
           /\ pointer_map = j.pointer_map
           /\ panicked = j.panicked
           /\ op = "new"
           /\ ret = TRUE
           /\ pre = Snapshot(j)

NextLoop ==
    \/ Resize
    \/ Quit
    \/ GoIn
    \/ GoOut
    \/ GoPrev
    \/ GoNext
    \/ Scroll
    \/ ToggleFold
    \/ ToggleFoldAll
    \/ Search
    \/ SearchInput
    \/ SearchBackspace
    \/ SearchConfirm
    \/ SearchCancel
    \/ RepeatSearch
    \/ RepeatSearchBackward
    \/ ClearSearch
    \/ OutputSelectionPretty
    \/ OutputValuePretty
    \/ OutputSelectionRaw
    \/ OutputValueRaw
    \/ CopySelectionPretty
    \/ CopyValuePretty
    \/ CopySelectionRaw
    \/ CopyValueRaw
    \/ ToggleLineNumbers
    \/ ShowHelp
    \/ DismissHelp
    \/ Ignore
    \/ FlashExpires
    \/ FlashTimeout

SpecLoop == InitLoop /\ [][NextLoop]_vars

\* ------------------------------------------------------------------------
\* The document as a tree, read without JSON-Pointer strings
\* ------------------------------------------------------------------------

\* The child of node v under token t, None when there is none
Child(v, t) ==
    IF is_object(v) /\ t.tag = "Key" THEN map_get(v, t.key)
    ELSE IF is_array(v) /\ t.tag = "Index" /\ t.idx < Len(v.kids) THEN Some(v.kids[t.idx + 1])
    ELSE None

RECURSIVE Node(_, _)
Node(v, path) ==
    IF path = <<>> THEN Some(v)
    ELSE LET c == Child(v, Head(path))
         IN IF c = None THEN None ELSE Node(c[1], Tail(path))

IsComposite(v) == is_object(v) \/ is_array(v)

\* The tokens of the children of v, in document order
ChildTokens(v) ==
    IF is_object(v) THEN [i \in 1..Len(v.keys) |-> Key(v.keys[i])]
    ELSE IF is_array(v) THEN [i \in 1..Len(v.kids) |-> Index(i - 1)]
    ELSE <<>>

Depth(j) == Len(Json_tokens(j))

RECURSIVE Times(_, _, _)
\* j after k calls of go_out (which = "out") or go_in (which = "in")
Times(which, j, k) ==
    IF k = 0 THEN j
    ELSE Times(which, IF which = "out" THEN go_out(j).json ELSE go_in(j).json, k - 1)

\* ------------------------------------------------------------------------
\* Properties
\* ------------------------------------------------------------------------

\* C1: sticky memory.  From every reachable state with an active path of
\* depth d, k go_out calls (k <= d) followed by k go_in calls restore
\* exactly the active path: go_in re-enters the remembered descendants.
StickyMemory ==
    \A k \in 0..Depth(self) :
        /\ Depth(Times("out", self, k)) = Depth(self) - k
        /\ Json_tokens(Times("in", Times("out", self, k), k)) = Json_tokens(self)

\* A go_in has re-entered a remembered node that is not the first child,
\* at depth two or more.
StickyMemoryWitness ==
    /\ op = "go_in" /\ ret
    /\ ~is_at_end(pre.pointer)
    /\ Depth(self) >= 2
    /\ Json_token(self) # first_child(before)

\* C2: sibling forgetting.  Right after go_prev or go_next returns true the
\* cursor is set and nothing is remembered beyond it, so a following go_in
\* selects the first child of the newly selected node (and fails when that
\* node has no child).
SiblingForgetting ==
    (op \in {"go_prev", "go_next"} /\ ret) =>
        /\ pointer.cursor # None
        /\ Len(pointer.tokens) = pointer.cursor[1] + 1
        /\ LET kids == ChildTokens(Node(value, Json_tokens(self))[1])
               r == go_in(self)
           IN /\ r.ret = (kids # <<>>)
              /\ r.ret => Json_tokens(r.json) = Append(Json_tokens(self), kids[1])

\* A sibling move has dropped a remembered tail.
SiblingForgettingWitness ==
    /\ op \in {"go_prev", "go_next"} /\ ret
    /\ Len(pre.pointer.tokens) > Len(pointer.tokens)
    /\ go_in(self).ret

\* The active node of j is the last (first) child of its parent
IsLastChild(j) ==
    LET path == Json_tokens(j)
    IN /\ path # <<>>
       /\ LET kids == ChildTokens(Node(j.value, SubSeq(path, 1, Len(path) - 1))[1])
          IN kids # <<>> /\ kids[Len(kids)] = path[Len(path)]

IsFirstChild(j) ==
    LET path == Json_tokens(j)
    IN /\ path # <<>>
       /\ LET kids == ChildTokens(Node(j.value, SubSeq(path, 1, Len(path) - 1))[1])
          IN kids # <<>> /\ kids[1] = path[Len(path)]

\* C3: on the last child of its parent go_next returns false and leaves the
\* active path unchanged, on the first child go_prev does; the cursor never
\* moves to the parent or to a sibling of an ancestor.
NoAutoAscend ==
    /\ (op = "go_next" /\ IsLastChild(before)) =>
            (~ret /\ Json_tokens(self) = Json_tokens(before))
    /\ (op = "go_prev" /\ IsFirstChild(before)) =>
            (~ret /\ Json_tokens(self) = Json_tokens(before))

\* C4: a no-op changes nothing.  When go_in, go_out or toggle_fold returns
\* false, the active path, the remembered tokens and the fold set are what
\* they were before the call.
NoOpChangesNothing ==
    (op \in {"go_in", "go_out", "toggle_fold"} /\ ~ret) =>
        /\ pointer = pre.pointer
        /\ folds = pre.folds

\* C5: cursor invariant.  The cursor is unset or an index into the
\* remembered tokens, and the active path is the prefix of the remembered
\* tokens of length cursor + 1 (empty when the cursor is unset).
CursorValid ==
    /\ pointer.cursor # None => pointer.cursor[1] < Len(pointer.tokens)
    /\ Json_tokens(self) =
          IF pointer.cursor = None THEN <<>>
          ELSE [i \in 1..(pointer.cursor[1] + 1) |-> pointer.tokens[i]]

\* The cursor is set and tokens are remembered beyond it after a go_out.
CursorValidWitness ==
    /\ op = "go_out" /\ ret
    /\ pointer.cursor # None
    /\ Len(pointer.tokens) > pointer.cursor[1] + 1

\* C6: go_in returns true iff a token is remembered beyond the cursor or the
\* active node is an object or array with a child; with nothing remembered
\* it selects the first child in document order; a go_out right after a
\* successful go_in returns true and restores the active path.
GoInCorrect ==
    op = "go_in" =>
        LET was == Json_tokens(before)
            kids == ChildTokens(Node(value, was)[1])
            remembered == Len(pre.pointer.tokens) > Len(was)
            o == go_out(self)
        IN /\ ret = (remembered \/ kids # <<>>)
           /\ (ret /\ ~remembered) => Json_tokens(self) = Append(was, kids[1])
           /\ (ret /\ remembered) =>
                 Json_tokens(self) = SubSeq(pre.pointer.tokens, 1, Len(was) + 1)
           /\ ret => (o.ret /\ Json_tokens(o.json) = was)
           /\ ~ret => Json_tokens(self) = was

\* A go_in with nothing remembered has selected the first child of a node
\* that has two or more children.
GoInCorrectWitness ==
    /\ op = "go_in" /\ ret
    /\ Len(pre.pointer.tokens) = Len(Json_tokens(before))
    /\ Len(ChildTokens(Node(value, Json_tokens(before))[1])) >= 2

\* C7: fold-set invariant.  Every folded path is a key of the pointer map
\* whose entry is an object or an array, and is the path of an object or
\* array of the document; no primitive is ever folded.
FoldsAreComposite ==
    \A t \in folds :
        /\ t \in DOMAIN pointer_map
        /\ pointer_map[t].value \in {"Object", "Array"}
        /\ Node(value, t) # None
        /\ IsComposite(Node(value, t)[1])

\* toggle_fold, asked on a primitive, has folded its parent.
FoldsAreCompositeWitness ==
    /\ op = "toggle_fold" /\ ret
    /\ ~IsComposite(Node(value, Json_tokens(before))[1])
    /\ Json_tokens(self) \in folds

\* The set with the membership of x flipped
Flip(set, x) == IF x \in set THEN set \ {x} ELSE set \cup {x}

\* C8: toggle_fold on a primitive that has a parent moves the cursor to the
\* parent, flips the parent in the fold set, leaves the other folds alone
\* and returns true; on an object or array it flips that node, leaves the
\* cursor alone and returns true, and a second toggle_fold restores the
\* fold set.
ToggleFoldCorrect ==
    op = "toggle_fold" =>
        LET was == Json_tokens(before)
            node == Node(value, was)[1]
        IN /\ (~IsComposite(node) /\ was # <<>>) =>
                 /\ ret
                 /\ Json_tokens(self) = SubSeq(was, 1, Len(was) - 1)
                 /\ folds = Flip(pre.folds, SubSeq(was, 1, Len(was) - 1))
           /\ IsComposite(node) =>
                 /\ ret
                 /\ pointer = pre.pointer
                 /\ folds = Flip(pre.folds, was)
                 /\ toggle_fold(self).json.folds = pre.folds

\* toggle_fold on a primitive has unfolded its folded parent.
ToggleFoldCorrectWitness ==
    /\ op = "toggle_fold" /\ ret
    /\ ~IsComposite(Node(value, Json_tokens(before))[1])
    /\ Json_tokens(self) \in pre.folds
    /\ Json_tokens(self) \notin folds

\* The paths of the objects and arrays of the document
CompositePaths == {t \in DOMAIN pointer_map : pointer_map[t].value \in {"Object", "Array"}}

\* C9: toggle_fold_all decides on the fold set.  If some object or array was
\* not folded, all of them are folded afterwards; the fold set is cleared
\* only when all of them were folded.
ToggleFoldAllDecides ==
    op = "toggle_fold_all" =>
        /\ ~(CompositePaths \subseteq pre.folds) => CompositePaths \subseteq folds
        /\ (pre.folds # {} /\ folds = {}) => CompositePaths \subseteq pre.folds

\* C10: from an empty fold set, toggle_fold_all twice gives the empty fold
\* set again.
ToggleFoldAllTwice ==
    folds = {} => toggle_fold_all(toggle_fold_all(self).json).json.folds = {}

\* The first and last line of the node at path t
First(t) == pointer_map[t].bounds[1]
Last(t) == pointer_map[t].bounds[2]

\* The lines hidden by the fold set fs: those inside the range of a folded
\* node after its first line
Hidden(fs) ==
    {ln \in 0..(Len(formatted) - 1) :
        \E t \in fs : t \in DOMAIN pointer_map /\ First(t) < ln /\ ln <= Last(t)}

\* path a is a proper prefix of path b
ProperPrefix(a, b) == Len(a) < Len(b) /\ SubSeq(b, 1, Len(a)) = a

\* The objects and arrays that are not folded and have no folded ancestor
Foldable ==
    {t \in CompositePaths : t \notin folds /\ ~\E a \in folds : ProperPrefix(a, t)}

\* C11 as stated: visible_line_count is the number of lines not hidden by a
\* fold, the total line count when nothing is folded, and folding an object
\* or array with range [f, l] that has no folded ancestor lowers it by
\* exactly l - f.
VisibleLineCountAsStated ==
    /\ visible_line_count(self) = Len(formatted) - Cardinality(Hidden(folds))
    /\ folds = {} => visible_line_count(self) = Len(formatted)
    /\ \A t \in Foldable :
          visible_line_count(fold(self, t).json) =
              visible_line_count(self) - (Last(t) - First(t))

\* C11, amended: the same, where the node folded has no folded ancestor and
\* no folded descendant either (a folded descendant has already taken its
\* lines off the count).
VisibleLineCount ==
    /\ visible_line_count(self) = Len(formatted) - Cardinality(Hidden(folds))
    /\ folds = {} => visible_line_count(self) = Len(formatted)
    /\ \A t \in Foldable :
          (~\E d \in folds : ProperPrefix(t, d)) =>
              visible_line_count(fold(self, t).json) =
                  visible_line_count(self) - (Last(t) - First(t))

\* toggle_fold has folded a node of three lines or more, with no folded
\* ancestor or descendant, while another node is folded.
VisibleLineCountWitness ==
    /\ op = "toggle_fold" /\ ret
    /\ \E t \in folds \ pre.folds :
          /\ Last(t) - First(t) >= 2
          /\ ~\E o \in folds : ProperPrefix(o, t) \/ ProperPrefix(t, o)
          /\ folds # {t}
          /\ visible_line_count(self) = visible_line_count(before) - (Last(t) - First(t))

\* C12: after go_in returns true neither the node the cursor left nor the
\* node it entered is folded, and every other path is folded exactly when it
\* was before.
GoInUnfolds ==
    (op = "go_in" /\ ret) =>
        LET left == Json_tokens(before)
            into == Json_tokens(self)
        IN /\ left \notin folds
           /\ into \notin folds
           /\ \A t \in (folds \cup pre.folds) \ {left, into} :
                 (t \in folds) = (t \in pre.folds)

\* go_in has left a folded node and entered a folded node, and a third node
\* stays folded.
GoInUnfoldsWitness ==
    /\ op = "go_in" /\ ret
    /\ Json_tokens(before) \in pre.folds
    /\ Json_tokens(self) \in pre.folds
    /\ folds # {}

\* C13: no sequence of go_in, go_out, go_prev, go_next, toggle_fold,
\* toggle_fold_all and search jumps reaches a panic: reset_cursor is never
\* called with the cursor unset and the sibling lookup always finds the
\* current key among the keys of the parent object.
NoPanic == ~panicked

\* go_next on the last member of an object has looked its key up, gone out
\* to the root and stopped there without replacing a token.
NoPanicWitness ==
    /\ op = "go_next" /\ ~ret /\ ~panicked
    /\ pre.pointer.cursor # None
    /\ current_token(pre.pointer) # None
    /\ as_key(current_token(pre.pointer)[1]) # None
    /\ pointer.cursor = None

\* The paths that tag a line
TaggedPaths == {formatted[i].pointer : i \in 1..Len(formatted)}

\* The lines (0-based) tagged with path t
LinesOf(t) == {ln \in 0..(Len(formatted) - 1) : formatted[ln + 1].pointer = t}

\* The lines of the range of path t
Range(t) == First(t)..Last(t)

\* C14 as stated: every path that tags a line has an entry in the pointer
\* map, and the range of the entry contains every line tagged with the path
\* and no line tagged with another path.
RangeCoversOnlyOwnLines ==
    \A t \in TaggedPaths :
        /\ t \in DOMAIN pointer_map
        /\ LinesOf(t) \subseteq Range(t)
        /\ \A ln \in Range(t) : formatted[ln + 1].pointer = t

\* C14, amended: every path that tags a line has an entry in the pointer
\* map; the range of the entry starts and ends on a line tagged with the
\* path, contains every line tagged with it, and every other line it
\* contains is tagged with a descendant of the path.
RangeCoversSubtree ==
    \A t \in TaggedPaths :
        /\ t \in DOMAIN pointer_map
        /\ LinesOf(t) \subseteq Range(t)
        /\ {First(t), Last(t)} \subseteq LinesOf(t)
        /\ \A ln \in Range(t) :
              formatted[ln + 1].pointer = t \/ ProperPrefix(t, formatted[ln + 1].pointer)

\* A nested object or array with a child of its own has its range.
RangeCoversSubtreeWitness ==
    \E t \in TaggedPaths :
        /\ t # <<>>
        /\ t \in CompositePaths
        /\ Cardinality(LinesOf(t)) = 2
        /\ Last(t) - First(t) >= 2

\* The path of the parent of the node at path t
ParentPath(t) == SubSeq(t, 1, Len(t) - 1)

\* C15: the range of every node but the root lies within the range of its
\* parent, and the ranges of two children of one parent do not overlap.
RangesNest ==
    \A t \in DOMAIN pointer_map \ {<<>>} :
        /\ ParentPath(t) \in DOMAIN pointer_map
        /\ First(ParentPath(t)) <= First(t)
        /\ First(t) <= Last(t)
        /\ Last(t) <= Last(ParentPath(t))
        /\ \A u \in DOMAIN pointer_map \ {<<>>, t} :
              ParentPath(u) = ParentPath(t) => (Last(t) < First(u) \/ Last(u) < First(t))

\* A parent has an object or array child followed by another child.
RangesNestWitness ==
    \E t \in CompositePaths \ {<<>>} :
        \E u \in DOMAIN pointer_map \ {<<>>, t} :
            /\ ParentPath(u) = ParentPath(t)
            /\ Last(t) + 1 = First(u)

\* The paths of the children of the node at path t
ChildPaths(t) == {u \in DOMAIN pointer_map \ {<<>>} : ParentPath(u) = t}

RECURSIVE SumLengths(_)
\* The sum of the range lengths of the paths in set
SumLengths(set) ==
    IF set = {} THEN 0
    ELSE LET u == CHOOSE x \in set : TRUE
         IN (Last(u) - First(u) + 1) + SumLengths(set \ {u})

\* C16: line i carries line number i; a primitive occupies one line; the
\* range of an object or array has length 2 plus the range lengths of its
\* children (2 when it is empty); the range of the root is [0, N - 1].
LineStructure ==
    /\ \A i \in 1..Len(formatted) : formatted[i].line_number = i - 1
    /\ \A t \in DOMAIN pointer_map :
          IF t \in CompositePaths
          THEN Last(t) - First(t) + 1 = 2 + SumLengths(ChildPaths(t))
          ELSE Last(t) = First(t)
    /\ <<>> \in DOMAIN pointer_map
    /\ pointer_map[<<>>].bounds = <<0, Len(formatted) - 1>>

\* The document holds an empty object or array, a primitive, and an object
\* or array with two or more children.
LineStructureWitness ==
    /\ \E t \in CompositePaths : ChildPaths(t) = {} /\ Last(t) = First(t) + 1
    /\ \E t \in CompositePaths : Cardinality(ChildPaths(t)) >= 2
    /\ \E t \in DOMAIN pointer_map \ CompositePaths : Last(t) = First(t)

\* The searchable fragments: <<line, element>> (0-based) of the elements
\* that are neither punctuation nor whitespace
Searchable ==
    UNION {{<<li - 1, ei - 1>> : ei \in {e \in 1..Len(formatted[li].elements) :
                formatted[li].elements[e].class \notin {"Punct", "Whitespace"}}} :
           li \in 1..Len(formatted)}

\* The text of fragment fr
TextOf(fr) == formatted[fr[1] + 1].elements[fr[2] + 1].text

\* The positions (in characters) at which query occurs in text, whatever
\* the case of the letters
Occurrences(text, query) ==
    {p \in 0..(Len(text) - Len(query)) :
        to_lowercase(SubSeq(text, p + 1, p + Len(query))) = to_lowercase(query)}

\* The matches of r in fragment fr, as indices into r.matches
MatchesIn(r, fr) ==
    {i \in 1..Len(r.matches) :
        r.matches[i].line_number = fr[1] /\ r.matches[i].element_index = fr[2]}

\* Match a comes before match b in document order
Precedes(a, b) ==
    \/ a.line_number < b.line_number
    \/ /\ a.line_number = b.line_number
       /\ \/ a.element_index < b.element_index
          \/ a.element_index = b.element_index /\ a.char_offset < b.char_offset

\* The last event has run perform_search
Searching == op \in {"search_input", "search_backspace"} /\ search_input # None
                /\ search_input[1] # <<>>

\* C17: for a non-empty query perform_search records one match for every
\* position at which the lower-cased query occurs in the lower-cased,
\* quote-stripped text of a searchable fragment, overlapping occurrences
\* included, and no other match; the matches are in document order.
SearchFindsEveryOccurrence ==
    Searching =>
        /\ ~panicked
        /\ search_results # None
        /\ LET r == search_results[1]
           IN /\ r.query = search_input[1]
              /\ \A fr \in Searchable :
                    Cardinality(MatchesIn(r, fr)) =
                        Cardinality(Occurrences(trim_matches(TextOf(fr)), r.query))
              /\ \A i \in 1..Len(r.matches) :
                    <<r.matches[i].line_number, r.matches[i].element_index>> \in Searchable
              /\ \A i \in 1..(Len(r.matches) - 1) : Precedes(r.matches[i], r.matches[i + 1])

\* C18: for every match, char_offset is the position in the fragment's own
\* text (quotes included) at which the occurrence starts, and
\* char_positions is {char_offset, ..., char_offset + |query| - 1}.
OffsetInOriginalText ==
    search_results # None =>
        LET r == search_results[1]
        IN \A i \in 1..Len(r.matches) :
              LET m == r.matches[i]
                  text == TextOf(<<m.line_number, m.element_index>>)
              IN /\ m.char_offset \in Occurrences(text, r.query)
                 /\ m.char_positions =
                       m.char_offset..(m.char_offset + Len(r.query) - 1)

RECURSIVE NextTimes(_, _)
\* r after k calls of next()
NextTimes(r, k) == IF k = 0 THEN r ELSE NextTimes(SearchResults_next(r).results, k - 1)

\* C19: with N >= 1 matches and no current match the first next() selects
\* match 0, N more next() calls come back to match 0 and the first prev()
\* selects match N - 1; with a current match next() then prev(), and prev()
\* then next(), leave the current index as it was; with no matches next()
\* and prev() return nothing and leave the current index unset.
MatchCycling ==
    search_results # None =>
        LET r == search_results[1]
            N == Len(r.matches)
            n == SearchResults_next(r)
            p == SearchResults_prev(r)
        IN /\ (N >= 1 /\ r.current_index = None) =>
                 /\ n.results.current_index = Some(0)
                 /\ n.ret = Some(r.matches[1])
                 /\ NextTimes(r, N + 1).current_index = Some(0)
                 /\ p.results.current_index = Some(N - 1)
           /\ r.current_index # None =>
                 /\ SearchResults_prev(n.results).results.current_index = r.current_index
                 /\ SearchResults_next(p.results).results.current_index = r.current_index
           /\ N = 0 =>
                 /\ r.current_index = None
                 /\ n.ret = None /\ n.results.current_index = None
                 /\ p.ret = None /\ p.results.current_index = None

\* RepeatSearch has wrapped from the last of two or more matches to the
\* first.
MatchCyclingWitness ==
    /\ op = "repeat_search" /\ ret
    /\ pre.results # None /\ search_results # None
    /\ Len(search_results[1].matches) >= 2
    /\ pre.results[1].current_index = Some(Len(search_results[1].matches) - 1)
    /\ search_results[1].current_index = Some(0)

\* C20: status_text is "0/0" without matches, "-/N" with N >= 1 matches and
\* no current match, and "i+1/N" when the current index is i.
StatusText ==
    search_results # None =>
        LET r == search_results[1]
            N == Len(r.matches)
            parts == Split(status_text(r), "/")
        IN /\ Len(parts) = 2
           /\ N = 0 => status_text(r) = <<"0", "/", "0">>
           /\ (N >= 1 /\ r.current_index = None) =>
                 parts[1] = <<"-">> /\ parse_index(parts[2]) = Some(N)
           /\ r.current_index # None =>
                 /\ parse_index(parts[1]) = Some(r.current_index[1] + 1)
                 /\ parse_index(parts[2]) = Some(N)

\* The second of three matches is the current one.
StatusTextWitness ==
    /\ search_results # None
    /\ Len(search_results[1].matches) = 3
    /\ search_results[1].current_index = Some(1)
    /\ status_text(search_results[1]) = <<"2", "/", "3">>

\* C21: token_value_pair returns the value at the cursor; with no key when
\* the active node is the root or an element of an array, with the node's
\* key when it is a member of an object.
TokenValuePair ==
    ~panicked =>
        LET path == Json_tokens(self)
            here == Node(value, path)
            up == Node(value, ParentPath(path))
            pair == token_value_pair(self)
        IN /\ here # None /\ pair # None
           /\ pair[1][2] = here[1]
           /\ path = <<>> => pair[1][1] = None
           /\ (path # <<>> /\ is_array(up[1])) => pair[1][1] = None
           /\ (path # <<>> /\ is_object(up[1])) =>
                 /\ path[Len(path)].tag = "Key"
                 /\ pair[1][1] = Some(path[Len(path)].key)

\* The cursor is on an element of an array that is itself a member of an
\* object, and on a member of an object that is an element of an array.
TokenValuePairWitness ==
    /\ ~panicked
    /\ Depth(self) >= 2
    /\ is_array(Node(value, ParentPath(Json_tokens(self)))[1])
    /\ token_value_pair(self)[1][1] = None
    /\ Json_tokens(self)[Depth(self) - 1].tag = "Key"

\* The text the last iteration has emitted, to the output or the clipboard
Emitted == IF output # None THEN output ELSE copied

\* The key and the value of the active node, read from the tree
KeyOf(path) ==
    IF path # <<>> /\ path[Len(path)].tag = "Key"
    THEN <<"\"">> \o path[Len(path)].key \o <<"\"", ":", " ">>
    ELSE <<>>

\* C22: every pretty action emits the multi-line indented form of the value
\* at the cursor and every raw action its single-line form, behind the key
\* when the selection of an object's member is asked for; so
\* OutputValuePretty emits what CopyValuePretty emits, and something else
\* than OutputValueRaw on a non-empty composite.
OutputEncodings ==
    Emitted # None =>
        LET path == Json_tokens(self)
            v == Node(value, path)[1]
        IN /\ op \in {"OutputValuePretty", "CopyValuePretty"} =>
                 Emitted[1] = to_string_pretty(v)
           /\ op \in {"OutputValueRaw", "CopyValueRaw"} =>
                 Emitted[1] = to_string(v)
           /\ op \in {"OutputSelectionPretty", "CopySelectionPretty"} =>
                 Emitted[1] = KeyOf(path) \o to_string_pretty(v)
           /\ op \in {"OutputSelectionRaw", "CopySelectionRaw"} =>
                 Emitted[1] = KeyOf(path) \o to_string(v)
           /\ (op = "OutputValuePretty" /\ IsComposite(v) /\ v.kids # <<>>) =>
                 Emitted[1] # to_string(v)

CopyActions == {"CopySelectionPretty", "CopyValuePretty", "CopySelectionRaw", "CopyValueRaw"}

\* C23: a clipboard failure is not fatal: after the clipboard is created
\* and after every copy action the loop still runs, whether the clipboard
\* has failed or not, and the cursor and the folds are what they were.
ClipboardFailureNonFatal ==
    op \in CopyActions \cup {"new"} =>
        /\ returned = None
        /\ pointer = pre.pointer /\ folds = pre.folds /\ all_folded = pre.all_folded

\* The longest key that is escaped and unescaped
MaxKey == 3

\* The keys over the characters that matter to JSON Pointer
Keys == UNION {[1..n -> {"~", "/", "0", "1", "a"}] : n \in 0..MaxKey}

RECURSIVE PathsOf(_)
\* The paths of the nodes of the tree v
PathsOf(v) ==
    {<<>>} \cup UNION {{<<ChildTokens(v)[i]>> \o p : p \in PathsOf(v.kids[i])} :
                          i \in 1..Len(ChildTokens(v))}

\* C24: for every path p of a node of the document, json_pointer(p) resolved
\* against the document reaches the node at p; unescaping an escaped key
\* gives the key back.
PointerRoundTrip ==
    /\ \A p \in PathsOf(value) : value_pointer(value, json_pointer(p)) = Node(value, p)
    /\ op = "new" => \A k \in Keys : unescape(escape_token(Key(k))) = k

\* The cursor is on a member whose key is "~", below an array element, and
\* the rendering of its path escapes the key.
PointerRoundTripWitness ==
    /\ Depth(self) = 3
    /\ Json_tokens(self)[3] = Key(<<"~">>)
    /\ to_json_pointer(pointer) = <<"/", "a", "/", "1", "/", "~", "0">>
    /\ Json_value(self) = Node(value, Json_tokens(self))

DocumentImmutable ==
    [][value' = value /\ formatted' = formatted /\ pointer_map' = pointer_map]_vars

\* The cursor has moved, a node is folded, a search has results and a text
\* has just been copied, on lines and a fold index that are still those of
\* construction.
DocumentImmutableWitness ==
    /\ Json_tokens(self) # <<>>
    /\ folds # {}
    /\ search_results # None /\ search_results[1].matches # <<>>
    /\ op \in CopyActions /\ copied # None
    /\ formatted = Json_from(value).formatted
    /\ pointer_map = Json_from(value).pointer_map

\* The match the last handler has jumped to, None when it has not jumped
Jumped ==
    IF panicked \/ search_results = None THEN None
    ELSE IF op \in {"search_input", "search_backspace"} /\ search_input # Some(<<>>)
         THEN first_match(search_results[1])
    ELSE IF op \in {"search_confirm", "repeat_search", "repeat_search_backward"} /\ ret
         THEN SearchResults_current(search_results[1])
    ELSE None

\* C27: after a search jump the matched line is visible, no node that holds
\* it after its first line being folded (the root included), and the
\* active path is the path of the matched line.
SearchJumpVisible ==
    Jumped # None =>
        /\ Jumped[1].line_number \notin Hidden(folds)
        /\ Json_tokens(self) = formatted[Jumped[1].line_number + 1].pointer

\* C28: the selected node is never hidden: no proper ancestor of the active
\* path is in the fold set.
SelectionNeverHidden ==
    ~panicked => ~\E t \in folds : ProperPrefix(t, Json_tokens(self))

\* C29: visible_bounds() is a pair (s, e) with s <= e < visible_line_count();
\* s = e when the selected node is folded and none of its ancestors is.
VisibleBoundsInRange ==
    ~panicked =>
        LET vb == visible_bounds(self)
            path == Json_tokens(self)
        IN /\ vb[1] <= vb[2]
           /\ vb[2] < visible_line_count(self)
           /\ (path \in folds /\ ~\E t \in folds : ProperPrefix(t, path)) => vb[1] = vb[2]

\* The results r have a current match
HasCurrent(r) == r # None /\ r[1].current_index # None

Steppers == {"search_confirm", "repeat_search", "repeat_search_backward"}

\* The current index is unset or an index of the match list, and unset in
\* the results of typing
CurrentIndexValid ==
    /\ HasCurrent(search_results) =>
          search_results[1].current_index[1] \in 0..(Len(search_results[1].matches) - 1)
    /\ (op \in {"search_input", "search_backspace"} /\ ~panicked) =>
          ~HasCurrent(search_results)

\* C30 as stated: the current index is valid, typing leaves it unset, and
\* only SearchConfirm, RepeatSearch and RepeatSearchBackward give the
\* results a current match when they had none.
CurrentIndexAsStated ==
    /\ CurrentIndexValid
    /\ (HasCurrent(search_results) /\ ~HasCurrent(pre.results)) => op \in Steppers

\* C30: the current index is valid, typing leaves it unset, and the results
\* get a current match they did not have only through SearchConfirm,
\* RepeatSearch and RepeatSearchBackward, or through SearchCancel when it
\* puts back the last search, whose current match one of those had set.
CurrentIndex ==
    /\ CurrentIndexValid
    /\ (HasCurrent(search_results) /\ ~HasCurrent(pre.results)) =>
          \/ op \in Steppers
          \/ op = "search_cancel" /\ search_results = last_search
    /\ HasCurrent(last_search) =>
          last_search[1].current_index[1] \in 0..(Len(last_search[1].matches) - 1)

\* SearchCancel has put back a confirmed search with its current match over
\* the results of typing, which had none.
CurrentIndexWitness ==
    /\ op = "search_cancel"
    /\ pre.results # None /\ ~HasCurrent(pre.results)
    /\ HasCurrent(search_results)
    /\ search_results = last_search

\* C31: the fold index has one entry for each node of the document and no
\* other, and an entry's kind and child count are those of its node.
FoldIndexIsTheTree ==
    /\ DOMAIN pointer_map = PathsOf(value)
    /\ \A t \in DOMAIN pointer_map :
          Node(value, t) # None =>
              LET v == Node(value, t)[1]
              IN /\ pointer_map[t].value =
                       (IF is_object(v) THEN "Object"
                        ELSE IF is_array(v) THEN "Array" ELSE "Primitive")
                 /\ pointer_map[t].children = Len(ChildTokens(v))

\* The index of {"a": [0, {"x": 1, "y": 2}], "b": 2}: seven entries, an
\* array of two, an object of two below it, primitives without children.
FoldIndexIsTheTreeWitness ==
    /\ value = Catalogue[9]
    /\ Cardinality(DOMAIN pointer_map) = 7
    /\ pointer_map[<<Key(<<"a">>)>>] =
           [value |-> "Array", children |-> 2, bounds |-> pointer_map[<<Key(<<"a">>)>>].bounds]
    /\ pointer_map[<<Key(<<"a">>), Index(1)>>].value = "Object"
    /\ pointer_map[<<Key(<<"a">>), Index(1)>>].children = 2
    /\ pointer_map[<<Key(<<"b">>)>>].value = "Primitive"
    /\ pointer_map[<<Key(<<"b">>)>>].children = 0

\* Line ln ends with the punctuation fragment ","
EndsWithComma(ln) ==
    LET es == formatted[ln + 1].elements
    IN es # <<>> /\ es[Len(es)].class = "Punct" /\ es[Len(es)].text = <<",">>

\* Path t is the last child of its parent
LastChildPath(t) ==
    /\ t # <<>>
    /\ LET kids == ChildTokens(Node(value, ParentPath(t))[1])
       IN kids # <<>> /\ kids[Len(kids)] = t[Len(t)]

\* C32: a line ends with a "," punctuation fragment if and only if it is the
\* last line of the range of a child that is not the last child of its
\* parent; a "," punctuation fragment is nowhere else.
CommaBetweenSiblings ==
    \A ln \in 0..(Len(formatted) - 1) :
        /\ EndsWithComma(ln) <=>
              \E t \in PathsOf(value) \ {<<>>} : Last(t) = ln /\ ~LastChildPath(t)
        /\ \A e \in 1..(Len(formatted[ln + 1].elements) - 1) :
              ~(/\ formatted[ln + 1].elements[e].class = "Punct"
                /\ formatted[ln + 1].elements[e].text = <<",">>)

\* {"a": [0, {"x": 1, "y": 2}], "b": 2}: the closing line of the array "a"
\* ends with a comma, the closing line of its last element and the closing
\* line of the root do not.
CommaBetweenSiblingsWitness ==
    /\ value = Catalogue[9]
    /\ EndsWithComma(Last(<<Key(<<"a">>)>>))
    /\ First(<<Key(<<"a">>)>>) < Last(<<Key(<<"a">>)>>)
    /\ ~EndsWithComma(Last(<<Key(<<"a">>), Index(1)>>))
    /\ ~EndsWithComma(Last(<<>>))
    /\ ~EndsWithComma(First(<<Key(<<"a">>)>>))

\* C33: perform_search with an empty query returns no match; every match of
\* a result refers to an existing fragment of the flattened lines whose
\* style is neither punctuation nor whitespace.
MatchesAreSearchableFragments ==
    /\ perform_search(formatted, <<>>) =
           [results |-> [query |-> <<>>, matches |-> <<>>, current_index |-> None],
            panic |-> FALSE]
    /\ \A r \in {search_results, last_search} :
          r # None =>
              \A i \in 1..Len(r[1].matches) :
                  LET m == r[1].matches[i]
                  IN /\ m.line_number < Len(formatted)
                     /\ m.element_index < Len(formatted[m.line_number + 1].elements)
                     /\ formatted[m.line_number + 1].elements[m.element_index + 1].class
                            \notin {"Punct", "Whitespace"}

\* ":" has been typed on a document whose lines hold the punctuation ": ":
\* the result is empty.  Another witness state holds matches.
MatchesAreSearchableFragmentsWitness ==
    /\ op = "search_input" /\ ~panicked
    /\ search_results # None
    /\ search_results[1].query = <<":">>
    /\ search_results[1].matches = <<>>
    /\ \E li \in 1..Len(formatted) : \E ei \in 1..Len(formatted[li].elements) :
          /\ formatted[li].elements[ei].class = "Punct"
          /\ formatted[li].elements[ei].text = <<":", " ">>

\* C34: after any sequence of go_in, go_out, go_prev, go_next, toggle_fold
\* and toggle_fold_all every prefix of the remembered tokens addresses an
\* existing node of the document: value() is present and bounds() reads the
\* pointer map, never its default range.
RememberedTokensExist ==
    ~panicked =>
        /\ \A k \in 0..Len(pointer.tokens) :
              LET prefix == SubSeq(pointer.tokens, 1, k)
              IN /\ Node(value, prefix) # None
                 /\ value_pointer(value, json_pointer(prefix)) # None
                 /\ prefix \in DOMAIN pointer_map
        /\ Json_value(self) # None
        /\ Json_tokens(self) \in DOMAIN pointer_map
        /\ bounds(self) = pointer_map[Json_tokens(self)].bounds

\* A sibling move has replaced the cursor's token while deeper tokens were
\* remembered, or the cursor stands above remembered tokens after a fold.
RememberedTokensExistWitness ==
    /\ ~panicked
    /\ op \in {"go_next", "go_prev"} /\ ret
    /\ Len(pre.pointer.tokens) > Len(Json_tokens(before)) 
    /\ Len(pointer.tokens) >= 1

\* C35: navigation order agrees with the order of the flattened lines.  With
\* (f, l) the bounds before and (f', l') the bounds after a call that
\* returned true: go_next gives f' > l, go_prev gives l' < f, go_in gives a
\* strictly smaller range inside (f, l), go_out a strictly larger range
\* around it.
NavigationFollowsLineOrder ==
    (~panicked /\ ret) =>
        LET f == bounds(before)[1]
            l == bounds(before)[2]
            f2 == bounds(self)[1]
            l2 == bounds(self)[2]
        IN /\ op = "go_next" => f2 > l
           /\ op = "go_prev" => l2 < f
           /\ op = "go_in" => f <= f2 /\ l2 <= l /\ l2 - f2 < l - f
           /\ op = "go_out" => f2 <= f /\ l <= l2 /\ l2 - f2 > l - f

\* go_next has climbed out of a last child to a sibling of an ancestor
NavigationFollowsLineOrderWitness ==
    /\ ~panicked /\ ret /\ op = "go_next"
    /\ Depth(self) < Depth(before)
    /\ bounds(self)[1] > bounds(before)[2]

\* C36: after every handled event the footer height is 1 if and only if the
\* search prompt is open or search results are present, and 0 otherwise.
FooterShowsSearch ==
    (returned = None /\ ~panicked) =>
        ui.footer_height = (IF search_input # None \/ search_results # None THEN 1 ELSE 0)

\* The step is a Quit of the loop (the passing of a flash's time leaves op
\* and pre as they were)
QuitStep == op' = "Quit" /\ pre' = Snapshot(self)

\* C37: from the normal mode the session ends after at most two consecutive
\* Quit actions.  A Quit with search results present moves them to the
\* remembered last search and the loop goes on; a Quit with none ends the
\* loop.  While the search prompt is open or the help overlay is shown, a
\* press of 'q' is not a Quit and no event ends the loop.
QuitTwiceTerminates ==
    [][/\ (QuitStep /\ search_results # None) =>
              /\ returned' = None
              /\ search_results' = None
              /\ last_search' = search_results
              /\ ~search_mode' /\ ~help_visible' /\ ~panicked'
       /\ (QuitStep /\ search_results = None) => returned' = Some("Ok")
       /\ (search_mode \/ help_visible) =>
              /\ returned' = None
              /\ ~QuitStep
              /\ \A modifiers \in Modifiers :
                    read_event(search_mode, help_visible, modifiers) # "Quit"]_vars

\* The second of two Quits in a row has ended the loop; the first one had
\* moved the results to the remembered last search.
QuitTwiceTerminatesWitness ==
    /\ op = "Quit" /\ returned = Some("Ok")
    /\ pre.results = None /\ search_results = None
    /\ last_search # None
    /\ ui.footer_height = 1

\* C38: for every fragment that contains matches, the highlight lookup of
\* the renderer (get_current, else get_match) yields positions that cover
\* every character of every match in that fragment.
HighlightCoversEveryMatch ==
    search_results # None =>
        \A i \in 1..Len(search_results[1].matches) :
            LET m == search_results[1].matches[i]
            IN m.char_positions \subseteq
                   match_positions(search_results, m.line_number, m.element_index)

\* The call which(j) goes on to the branch that calls go_out and then itself
Recurses(which, j) ==
    IF which = "toggle_fold" THEN is_primitive(Json_value(j))
    ELSE Let(IF which = "go_next" THEN next_sibling(j) ELSE prev_sibling(j),
             LAMBDA s : ~s.panic /\ s.tok = None)

RECURSIVE Invocations(_, _)
\* The number of invocations of which (go_prev, go_next or toggle_fold) that
\* one call on j performs, itself included
Invocations(which, j) ==
    IF Recurses(which, j) /\ go_out(j).ret
    THEN 1 + Invocations(which, go_out(j).json)
    ELSE 1

RECURSIVE CallsUntilFalse(_, _)
\* The number of go_next calls made from j up to the first one that returns
\* false, None when the first fuel calls all return true
CallsUntilFalse(j, fuel) ==
    IF fuel = 0 THEN None
    ELSE Let(go_next(j), LAMBDA r :
             IF ~r.ret THEN Some(1)
             ELSE Let(CallsUntilFalse(r.json, fuel - 1), LAMBDA n :
                      IF n = None THEN None ELSE Some(n[1] + 1)))

\* C39: go_prev, go_next and toggle_fold terminate.  A successful go_out
\* lowers the depth of the cursor by one, a call made at depth d performs
\* at most d + 1 invocations, and go_next called again and again returns
\* false after finitely many calls (at most one call per node of the
\* document, and one more).
NavigationTerminates ==
    ~panicked =>
        /\ \A k \in 1..Depth(self) :
              /\ go_out(Times("out", self, k - 1)).ret
              /\ Depth(Times("out", self, k)) = Depth(self) - k
        /\ \A which \in {"go_prev", "go_next", "toggle_fold"} :
              Invocations(which, self) <= Depth(self) + 1
        /\ CallsUntilFalse(self, Cardinality(DOMAIN pointer_map) + 1) # None

\* go_next, called on a last child of a last child at depth two or more, has
\* climbed to the root in d + 1 invocations and returned false.
NavigationTerminatesWitness ==
    /\ ~panicked /\ op = "go_next" /\ ~ret
    /\ Depth(before) >= 2
    /\ Invocations("go_next", before) = Depth(before) + 1
    /\ Depth(self) = 0

====
